---------------------------- MODULE Spec2Model ----------------------------
(***************************************************************************)
(* Tomoji web client: the capture modal (CaptureModal.tsx), the App shell  *)
(* that owns gallery and font state (App, in index.tsx), the export view   *)
(* (ExportView.tsx) and the API client (api functions, in cookies.ts).     *)
(* The backend is not part of the sources; its store and export endpoint   *)
(* are modelled from the specification (Server* definitions).              *)
(***************************************************************************)
EXTENDS Integers, Sequences, FiniteSets, TLC

\* ------------------------------------------------------------------ bounds
MaxStrLen == 4
MaxEdits == 2
MaxExports == 2
MaxInFlight == 2
MaxChanges == 2

\* ------------------------------------------------------------ null values
NULL == "null"
NoTime == << >>
EmptyStr == << >>

\* ---------------------------------------------------- strings and graphemes
\* A string is a sequence of Unicode scalars.  p1, p2 carry the
\* Extended_Pictographic property, a is a letter, vs is an Extend scalar
\* (variation selector, skin tone modifier), zwj is ZERO WIDTH JOINER.
Scalars == {"p1", "p2", "a", "vs", "zwj"}

IsPictographic(c) == c \in {"p1", "p2"}

IsExtend(c) == c \in {"vs", "zwj"}

Strings == UNION {[1..n -> Scalars] : n \in 0..MaxStrLen}

\* UAX #29 GB11: ExtPict Extend* ZWJ x ExtPict
RECURSIVE PictBeforeExtends(_, _)
PictBeforeExtends(s, i) ==
  IF i < 1 THEN FALSE
  ELSE IF IsPictographic(s[i]) THEN TRUE
  ELSE IF s[i] = "vs" THEN PictBeforeExtends(s, i - 1)
  ELSE FALSE

\* Intl.Segmenter, granularity "grapheme": is there a break before s[i]
BreakBefore(s, i) ==
  IF i = 1 THEN TRUE
  ELSE IF IsExtend(s[i]) THEN FALSE
  ELSE IF IsPictographic(s[i]) /\ s[i - 1] = "zwj" /\ PictBeforeExtends(s, i - 2)
       THEN FALSE
  ELSE TRUE

RECURSIVE SegmentFrom(_, _, _)
SegmentFrom(s, i, cur) ==
  IF i > Len(s) THEN (IF cur = << >> THEN << >> ELSE << cur >>)
  ELSE IF BreakBefore(s, i) /\ cur # << >>
       THEN << cur >> \o SegmentFrom(s, i + 1, << s[i] >>)
  ELSE SegmentFrom(s, i + 1, Append(cur, s[i]))

Segments(s) == SegmentFrom(s, 1, << >>)

\* /\p{Extended_Pictographic}/u.test(g)
EmojiRegexTest(g) == \E i \in 1..Len(g) : IsPictographic(g[i])

RECURSIVE FirstMatching(_)
FirstMatching(segs) ==
  IF segs = << >> THEN EmptyStr
  ELSE IF EmojiRegexTest(Head(segs)) THEN Head(segs)
  ELSE FirstMatching(Tail(segs))

\* variant: cuts at the first pictographic scalar instead of the grapheme
extractFirstScalar(str) ==
  IF \E i \in 1..Len(str) : IsPictographic(str[i])
  THEN << str[CHOOSE i \in 1..Len(str) :
                /\ IsPictographic(str[i])
                /\ \A j \in 1..(i - 1) : ~IsPictographic(str[j])] >>
  ELSE EmptyStr

extractFirstEmoji(str) ==
  IF str = EmptyStr THEN EmptyStr ELSE FirstMatching(Segments(str))

isValidEmoji(str) == str # EmptyStr /\ str = extractFirstEmoji(str)

\* ------------------------------------------------------------- timestamps
\* The server sends ISO-8601 strings; the model keeps the seconds and the
\* milliseconds fields.  The server clock counts half seconds.
ServerTimestamp(n) == << n \div 2, (n % 2) * 500 >>

\* new Date(ts).getTime()
getTime(ts) == ts[1] * 1000 + ts[2]

Timestamps == {ServerTimestamp(n) : n \in 0..(MaxEdits + MaxExports + 2)}

\* ------------------------------------------------------- emoji registry
E1 == << "p1" >>
E2 == << "p2" >>
CustomEmoji == << "p1", "vs" >>

\* emojisData().categories flattened
allEmojis == << E1, E2 >>

\* what the user types or pastes into the custom emoji input
RawInputs == { << >>, << "a" >>, << "a", "p1", "vs", "p2" >> }

\* glyph identity hex key: the lead Unicode scalar of the emoji
HexKey(emoji) == emoji[1]

StoreKeys == {HexKey(E1), HexKey(E2)}

Images == {"img1", "img2"}

\* ---------------------------------------------------------------- settings
\* padding is kept in hundredths: the slider value v (an integer from
\* SliderMin to SliderMax) gives the ratio v / 100
SliderMin == 0
SliderMax == 100
SliderStops == {SliderMin, 50, SliderMax}

\* parseInt(e.currentTarget.value) / 100
SliderPadding(v) == v

\* 0 <= padding <= 1, on hundredths
InUnitInterval(padding) == 0 <= padding /\ padding <= 100

\* variant: accessories are dropped by default
defaultSettingsAllOff ==
  [padding |-> 0,
   keep_background |-> FALSE,
   keep_clothes |-> FALSE,
   keep_accessories |-> FALSE]

defaultSettings ==
  [padding |-> 0,
   keep_background |-> FALSE,
   keep_clothes |-> FALSE,
   keep_accessories |-> TRUE]

\* settings a session saved on an earlier visit
SavedSettings ==
  [padding |-> 50,
   keep_background |-> TRUE,
   keep_clothes |-> FALSE,
   keep_accessories |-> FALSE]

RemoveAt(s, i) == SubSeq(s, 1, i - 1) \o SubSeq(s, i + 1, Len(s))

\* ----------------------------------------------------------- API client
\* session ids as the server hands them out
SessionIds == {"s1", "s2"}

\* HTTP statuses a response can carry: OK, rate limited, another failure
Statuses == {200, 429, 500}

\* variant: a 429 is treated like every other failure
handleResponseNoRateLimit(status, detail, errorMessage) ==
  IF status = 200 THEN [name |-> "ok", message |-> NULL]
  ELSE [name |-> "Error",
        message |-> IF detail # NULL THEN detail ELSE errorMessage]

\* handleResponse: the error thrown for a response, "ok" when it returns
\* the body; detail is the detail of the error body, NULL without one
handleResponse(status, detail, errorMessage) ==
  IF status = 429
  THEN [name |-> "RateLimitError", message |-> "Too many requests"]
  ELSE IF status # 200
       THEN [name |-> "Error",
             message |-> IF detail # NULL THEN detail ELSE errorMessage]
       ELSE [name |-> "ok", message |-> NULL]

VARIABLES arg, res, server, app, modal, ev, net

vars == << arg, res, server, app, modal, ev, net >>

pureVars == << arg, res >>

\* --------------------------------------------------------------- server
\* The backend (capture store, font export) is not among the sources.
\* The store holds one bitmap per hex key, with the glyph identity it was
\* put for.  exports counts the exports; stale records whether a capture
\* was written or deleted after the last export.  sessions are the ids of
\* the sessions that exist, issued the ids createSession ever returned.
ServerInit ==
  [store |-> [k \in StoreKeys |-> NULL],
   glyph |-> [k \in StoreKeys |-> EmptyStr],
   clock |-> 0,
   exports |-> 0,
   stale |-> FALSE,
   last_capture_edit |-> NoTime,
   last_generation |-> NoTime,
   font |-> FALSE,
   settings |-> << >>,
   sessions |-> {"s1"},
   issued |-> {"s1"}]

\* the settings record of a session is absent (<< >>) or holds one value.
\* GET /settings: the stored settings, the defaults when there are none
ServerGetSettings(srv) ==
  IF srv.settings = << >> THEN defaultSettings ELSE srv.settings[1]

\* PUT /settings
ServerPutSettings(srv, settings) == [srv EXCEPT !.settings = << settings >>]

\* list(session): registry order, then custom glyphs
RECURSIVE ListFrom(_, _)
ListFrom(srv, order) ==
  IF order = << >> THEN << >>
  ELSE LET k == Head(order)
       IN (IF srv.store[k] # NULL
           THEN << [emoji |-> srv.glyph[k], image_data |-> srv.store[k]] >>
           ELSE << >>) \o ListFrom(srv, Tail(order))

ServerList(srv) == ListFrom(srv, << HexKey(E1), HexKey(E2) >>)

\* GET /gallery
ServerGallery(srv) ==
  [captured |-> ServerList(srv),
   last_capture_edit |-> srv.last_capture_edit,
   last_generation |-> srv.last_generation]

\* put(session, glyph, bitmap): replaces the entry, stamps the session
ServerPut(srv, emoji, image) ==
  [srv EXCEPT !.store[HexKey(emoji)] = image,
              !.glyph[HexKey(emoji)] = emoji,
              !.clock = @ + 1,
              !.stale = TRUE,
              !.last_capture_edit = ServerTimestamp(srv.clock + 1)]

\* delete(session, glyph)
ServerDelete(srv, emoji) ==
  [srv EXCEPT !.store[HexKey(emoji)] = NULL,
              !.glyph[HexKey(emoji)] = EmptyStr,
              !.clock = @ + 1,
              !.stale = TRUE,
              !.last_capture_edit = ServerTimestamp(srv.clock + 1)]

\* clear(session): drops every capture and the font artifact
ServerClear(srv, keepEdit) ==
  [srv EXCEPT !.store = [k \in StoreKeys |-> NULL],
              !.glyph = [k \in StoreKeys |-> EmptyStr],
              !.clock = @ + 1,
              !.last_capture_edit =
                 IF keepEdit THEN ServerTimestamp(srv.clock + 1) ELSE NoTime,
              !.last_generation = NoTime,
              !.stale = FALSE,
              !.font = FALSE]

\* export: full rebuild, generation timestamp taken at the snapshot
ServerExport(srv) ==
  [srv EXCEPT !.clock = @ + 1,
              !.exports = @ + 1,
              !.stale = FALSE,
              !.last_generation = ServerTimestamp(srv.clock + 1),
              !.font = TRUE]

\* Font Assembler.  The glyph order is a sequence: the glyph with index g
\* is at position g + 1.  Index 0 is ".notdef"; each entry gets the next
\* index in input order.
GlyphOrder(entries) ==
  << ".notdef" >> \o [i \in 1..Len(entries) |-> entries[i].emoji]

\* the cmap maps the lead scalar of each entry to its glyph index; a scalar
\* with no entry resolves to 0
Cmap(entries) ==
  [c \in Scalars |->
     LET hits == {i \in 1..Len(entries) : HexKey(entries[i].emoji) = c}
     IN IF hits = {} THEN 0
        ELSE CHOOSE i \in hits : \A j \in hits : j <= i]

\* variant: no glyph is reserved, the entries are numbered from 0
AssembleFromZero(entries) ==
  [glyphOrder |-> [i \in 1..Len(entries) |-> entries[i].emoji],
   cmap |-> [c \in Scalars |->
               IF Cmap(entries)[c] = 0 THEN 0 ELSE Cmap(entries)[c] - 1]]

Assemble(entries) ==
  [glyphOrder |-> GlyphOrder(entries), cmap |-> Cmap(entries)]

ServerHasCaptures(srv) == \E k \in StoreKeys : srv.store[k] # NULL

\* the runs explored hold at most MaxEdits store writes and MaxExports exports
CanEdit(srv) == srv.clock - srv.exports < MaxEdits

CanExport(srv) == srv.exports < MaxExports

\* ------------------------------------------------------------------- App
\* cleared is bookkeeping of the model: the session was cleared and no
\* export has been started since.  settingsSource is bookkeeping too: who
\* set the settings last ("default", "server" or "user").
\* settingsSaveTimeout is 0 (undefined) or the id of the timer set last;
\* timeouts are the pending timers of the browser, each with its id, the
\* settings its callback will save and the time left until it is due.
\* settingsChanges counts the changes the user made; the runs explored
\* hold at most MaxChanges of them.
\* sessionId is the session id of the route, NULL on the route "/" where
\* SessionRedirect is shown in place of the App; cookie is the session
\* cookie of the browser and rateLimited the signal of SessionRedirect.
EmptyGallery ==
  [captured |-> << >>, last_capture_edit |-> NoTime, last_generation |-> NoTime]

AppInit ==
  [modalOpen |-> FALSE,
   selectedEmoji |-> EmptyStr,
   isCustomCapture |-> FALSE,
   galleryData |-> EmptyGallery,
   view |-> "gallery",
   showClearConfirm |-> FALSE,
   clearing |-> FALSE,
   fontUrl |-> NULL,
   fontLoaded |-> FALSE,
   fontFamilyId |-> NULL,
   localLastGeneration |-> NoTime,
   cleared |-> FALSE,
   settings |-> defaultSettings,
   settingsLoaded |-> FALSE,
   settingsSaveTimeout |-> 0,
   timeouts |-> {},
   settingsSource |-> "default",
   settingsChanges |-> 0,
   sessionId |-> "s1",
   sessionState |-> "valid",
   validatedSessionId |-> "s1",
   cookie |-> "s1",
   rateLimited |-> FALSE]

\* variant: the emoji of the first gallery entry only
capturedSetOfFirst(a) ==
  IF a.galleryData.captured = << >> THEN {}
  ELSE {a.galleryData.captured[1].emoji}

capturedSet(a) ==
  {a.galleryData.captured[i].emoji : i \in 1..Len(a.galleryData.captured)}

\* captured.forEach((c) => map.set(c.emoji, c)): the last entry of a key wins
RECURSIVE MapOf(_)
MapOf(captured) ==
  IF captured = << >> THEN << >>
  ELSE LET n == Len(captured)
           rest == MapOf(SubSeq(captured, 1, n - 1))
           c == captured[n]
       IN IF \E i \in 1..Len(rest) : rest[i].emoji = c.emoji
          THEN [i \in 1..Len(rest) |->
                  IF rest[i].emoji = c.emoji THEN c ELSE rest[i]]
          ELSE Append(rest, c)

\* the Map as the set of its (key, value) entries
capturedMap(a) ==
  LET m == MapOf(a.galleryData.captured)
  IN {m[i] : i \in 1..Len(m)}

\* capturedMap().get(selectedEmoji()!.emoji)?.image_data, NULL when absent
existingCapture(a) ==
  IF \E c \in capturedMap(a) : c.emoji = a.selectedEmoji
  THEN (CHOOSE c \in capturedMap(a) : c.emoji = a.selectedEmoji).image_data
  ELSE NULL

hasUncapturedEmoji(a) ==
  \E i \in 1..Len(allEmojis) : allEmojis[i] \notin capturedSet(a)

\* ExportView props
lastCaptureEdit(a) == a.galleryData.last_capture_edit

\* variant: the generation time of the last gallery fetch only
lastGenerationOfGallery(a) == a.galleryData.last_generation

lastGeneration(a) ==
  IF a.localLastGeneration # NoTime THEN a.localLastGeneration
  ELSE a.galleryData.last_generation

capturedCount(a) == Len(a.galleryData.captured)

\* variant: an edit at the instant of the generation counts as a change
buttonDisabledNonStrict(lastGen, lastEdit) ==
  IF lastGen = NoTime THEN FALSE
  ELSE IF lastEdit = NoTime THEN TRUE
  ELSE IF getTime(lastEdit) >= getTime(lastGen) THEN FALSE
  ELSE TRUE

\* buttonState().disabled
buttonDisabled(lastGen, lastEdit) ==
  IF lastGen = NoTime THEN FALSE
  ELSE IF lastEdit = NoTime THEN TRUE
  ELSE IF getTime(lastEdit) > getTime(lastGen) THEN FALSE
  ELSE TRUE

overlay(a) == a.modalOpen \/ a.showClearConfirm

\* ---------------------------------------------------------- CaptureModal
\* countdown 0 stands for null; stream is "none", "pending" or "active";
\* countdownInterval tells whether the variable holds a timer, timers is
\* the number of interval timers that are running
ClosedModal ==
  [state |-> "webcam",
   processedImage |-> NULL,
   error |-> NULL,
   capturedFrame |-> NULL,
   viewingExisting |-> FALSE,
   customEmojiInput |-> EmptyStr,
   countdown |-> 0,
   countdownInterval |-> FALSE,
   timers |-> 0,
   stream |-> "none"]

\* variant: the initial signals ignore the existing capture
NewModalWebcam(a) ==
  [state |-> "webcam",
   processedImage |-> NULL,
   error |-> NULL,
   capturedFrame |-> NULL,
   viewingExisting |-> FALSE,
   customEmojiInput |-> a.selectedEmoji,
   countdown |-> 0,
   countdownInterval |-> FALSE,
   timers |-> 0,
   stream |-> "pending"]

\* createSignal initial values and onMount of a new CaptureModal
NewModal(a) ==
  LET ex == existingCapture(a)
  IN [state |-> IF ex # NULL THEN "preview" ELSE "webcam",
      processedImage |-> ex,
      error |-> NULL,
      capturedFrame |-> NULL,
      viewingExisting |-> ex # NULL,
      customEmojiInput |-> a.selectedEmoji,
      countdown |-> 0,
      countdownInterval |-> FALSE,
      timers |-> 0,
      stream |-> IF ex # NULL THEN "none" ELSE "pending"]

\* variant: the effect sets the state only and keeps the image
ResetEffectKeepsImage(m, a) ==
  [m EXCEPT !.state = IF existingCapture(a) # NULL THEN "preview" ELSE "webcam",
            !.capturedFrame = NULL,
            !.error = NULL]

\* createEffect: reset state when emoji or existing capture changes
ResetEffect(m, a) ==
  LET ex == existingCapture(a)
  IN [m EXCEPT !.state = IF ex # NULL THEN "preview" ELSE "webcam",
               !.processedImage = ex,
               !.viewingExisting = ex # NULL,
               !.capturedFrame = NULL,
               !.error = NULL]

currentEmoji(a, m) ==
  IF a.isCustomCapture /\ existingCapture(a) = NULL
  THEN m.customEmojiInput
  ELSE a.selectedEmoji

captureDisabled(a, m) ==
  a.isCustomCapture /\ existingCapture(a) = NULL /\ ~isValidEmoji(m.customEmojiInput)

\* error()?.match(/camera|webcam/i): every message of initWebcam matches,
\* the other messages of the modal do not
MatchesCamera(err) == err = "camera"

\* props.onNext is handleNext or undefined
onNextDefined(a) == hasUncapturedEmoji(a)

\* <Show when> of the Capture and "in 3 seconds" buttons
captureShown(m) ==
  m.state = "webcam" /\ m.countdown = 0 /\ ~MatchesCamera(m.error)

\* the Upload button is in both webcam button groups
uploadShown(m) == m.state = "webcam" /\ m.countdown = 0

\* variant: Accept is shown for an existing capture too
acceptShownInPreview(m) == m.state = "preview"

\* <Show when> of the Accept button
acceptShown(m) == m.state = "preview" /\ ~m.viewingExisting

\* <Show when> of the Delete button
deleteShown(m) == m.state = "preview" /\ m.viewingExisting

\* <Show when> of the Next button
nextShown(a, m) == m.state = "preview" /\ onNextDefined(a) /\ ~m.viewingExisting

\* every request of the disposed modal instance keeps running without it
Orphan(reqs) == [i \in 1..Len(reqs) |-> [reqs[i] EXCEPT !.live = FALSE]]

\* onCleanup of the modal instance.  Its save and delete requests still
\* reach the store and the App callbacks.  Its preview requests and file
\* reads only ever write the signals of the disposed instance (a read may
\* still send a preview request, whose response does the same), so they
\* are dropped here.
DisposeModal(n, m) ==
  [n EXCEPT !.previews = << >>,
            !.saves = Orphan(@),
            !.deletes = Orphan(@),
            !.reads = << >>]

\* refetchGallery(): the newest fetch is the one createResource applies;
\* cont marks a fetch that handleNext awaits
Refetch(fetches, cont) ==
  LET Kept(i) == fetches[i].cont
      RECURSIVE Keep(_)
      Keep(i) ==
        IF i > Len(fetches) THEN << >>
        ELSE (IF Kept(i) THEN << [fetches[i] EXCEPT !.current = FALSE] >> ELSE << >>)
             \o Keep(i + 1)
  IN Append(Keep(1), [cont |-> cont, current |-> TRUE])

NetInit ==
  [previews |-> << >>,
   saves |-> << >>,
   deletes |-> << >>,
   reads |-> << >>,
   fetches |-> << >>,
   exports |-> << >>,
   loads |-> << >>,
   clears |-> 0,
   settingsLoad |-> TRUE,
   settingsSaves |-> << >>,
   validations |-> << >>,
   creates |-> 0]

\* requests awaiting their response (gallery fetches are counted apart)
InFlight(n) ==
  Len(n.previews) + Len(n.saves) + Len(n.deletes) + Len(n.reads)
    + Len(n.exports) + Len(n.loads) + n.clears

\* handleEmojiClick, then the CaptureModal is created
handleEmojiClick(e) ==
  /\ ~overlay(app) /\ app.view = "gallery"
  /\ e \in {allEmojis[i] : i \in 1..Len(allEmojis)} \cup capturedSet(app)
  /\ LET a == [app EXCEPT !.modalOpen = TRUE, !.selectedEmoji = e,
                          !.isCustomCapture = FALSE]
     IN /\ app' = a
        /\ modal' = NewModal(a)
  /\ UNCHANGED << pureVars, server, ev, net >>

\* handleAddCustomEmoji: placeholder emoji with an empty string
handleAddCustomEmoji ==
  /\ ~overlay(app) /\ app.view = "gallery"
  /\ LET a == [app EXCEPT !.modalOpen = TRUE, !.selectedEmoji = EmptyStr,
                          !.isCustomCapture = TRUE]
     IN /\ app' = a
        /\ modal' = NewModal(a)
  /\ UNCHANGED << pureVars, server, ev, net >>

\* handleCaptureClose (backdrop or close button)
handleCaptureClose ==
  /\ app.modalOpen
  /\ app' = [app EXCEPT !.modalOpen = FALSE, !.selectedEmoji = EmptyStr,
                        !.isCustomCapture = FALSE]
  /\ net' = DisposeModal(net, modal)
  /\ modal' = ClosedModal
  /\ UNCHANGED << pureVars, server, ev >>

\* startWebcam resolved
initWebcamResolve ==
  /\ app.modalOpen /\ modal.stream = "pending"
  /\ modal' = [modal EXCEPT !.stream = "active"]
  /\ UNCHANGED << pureVars, server, app, ev, net >>

\* startWebcam rejected: one of the camera messages is shown
initWebcamReject ==
  /\ app.modalOpen /\ modal.stream = "pending"
  /\ modal' = [modal EXCEPT !.stream = "none", !.error = "camera"]
  /\ UNCHANGED << pureVars, server, app, ev, net >>

\* handleEmojiInput: the input exists while a new custom emoji is added
handleEmojiInput(raw) ==
  /\ app.modalOpen /\ app.isCustomCapture /\ existingCapture(app) = NULL
  /\ modal' = [modal EXCEPT !.customEmojiInput = extractFirstEmoji(raw)]
  /\ UNCHANGED << pureVars, server, app, ev, net >>

\* handleCapture: frame grabbed, preview request sent
DoCapture(m) ==
  [m EXCEPT !.capturedFrame = "frame", !.state = "processing", !.error = NULL]

\* the request carries the settings of the moment it is sent
SendPreview(n, emoji) ==
  [n EXCEPT !.previews = Append(@,
     [emoji |-> emoji, live |-> TRUE, params |-> app.settings])]

\* Capture button
handleCapture ==
  /\ app.modalOpen /\ captureShown(modal) /\ ~captureDisabled(app, modal)
  /\ InFlight(net) < MaxInFlight
  /\ modal' = DoCapture(modal)
  /\ net' = SendPreview(net, currentEmoji(app, modal))
  /\ UNCHANGED << pureVars, server, app, ev >>

\* handleUpload: the file is read asynchronously
handleUpload ==
  /\ app.modalOpen /\ uploadShown(modal) /\ ~captureDisabled(app, modal)
  /\ InFlight(net) < MaxInFlight
  /\ modal' = [modal EXCEPT !.error = NULL]
  /\ net' = [net EXCEPT !.reads = Append(@, [live |-> TRUE])]
  /\ UNCHANGED << pureVars, server, app, ev >>

\* reader.onload: the preview request is sent
readerOnload(i) ==
  /\ i \in 1..Len(net.reads)
  /\ modal' = [modal EXCEPT !.capturedFrame = "frame", !.state = "processing"]
  /\ net' = SendPreview([net EXCEPT !.reads = RemoveAt(@, i)],
                        currentEmoji(app, modal))
  /\ UNCHANGED << pureVars, server, app, ev >>

\* reader.onerror
readerOnerror(i) ==
  /\ i \in 1..Len(net.reads)
  /\ modal' = [modal EXCEPT !.error = "file", !.capturedFrame = NULL,
                            !.state = "webcam"]
  /\ net' = [net EXCEPT !.reads = RemoveAt(@, i)]
  /\ UNCHANGED << pureVars, server, app, ev >>

\* if (countdownInterval) clearInterval(countdownInterval)
ClearCountdownInterval(m) ==
  [m EXCEPT !.timers = IF m.countdownInterval THEN @ - 1 ELSE @]

\* handleDelayedCapture ("in 3 seconds" button)
handleDelayedCapture ==
  /\ app.modalOpen /\ captureShown(modal) /\ ~captureDisabled(app, modal)
  /\ modal' = [ClearCountdownInterval(modal) EXCEPT !.countdown = 3,
                                                    !.countdownInterval = TRUE,
                                                    !.timers = @ + 1]
  /\ UNCHANGED << pureVars, server, app, ev, net >>

\* variant: the capture is made one tick early
countdownTickEarly ==
  /\ app.modalOpen /\ modal.timers > 0
  /\ IF modal.countdown <= 2
     THEN /\ InFlight(net) < MaxInFlight
          /\ modal' = [DoCapture(ClearCountdownInterval(modal)) EXCEPT
                         !.countdown = 0,
                         !.countdownInterval = FALSE]
          /\ net' = SendPreview(net, currentEmoji(app, modal))
     ELSE /\ modal' = [modal EXCEPT !.countdown = @ - 1]
          /\ net' = net
  /\ UNCHANGED << pureVars, server, app, ev >>

\* the setInterval callback of handleDelayedCapture
countdownTick ==
  /\ app.modalOpen /\ modal.timers > 0
  /\ IF modal.countdown <= 1
     THEN /\ InFlight(net) < MaxInFlight
          /\ modal' = [DoCapture(ClearCountdownInterval(modal)) EXCEPT
                         !.countdown = 0,
                         !.countdownInterval = FALSE]
          /\ net' = SendPreview(net, currentEmoji(app, modal))
     ELSE /\ modal' = [modal EXCEPT !.countdown = @ - 1]
          /\ net' = net
  /\ UNCHANGED << pureVars, server, app, ev >>

\* cancelCountdown (Cancel button)
cancelCountdown ==
  /\ app.modalOpen /\ modal.state = "webcam" /\ modal.countdown # 0
  /\ modal' = [ClearCountdownInterval(modal) EXCEPT !.countdown = 0,
                                                    !.countdownInterval = FALSE]
  /\ UNCHANGED << pureVars, server, app, ev, net >>

\* variant: retaking an existing capture deletes it from the store
handleRetakeDeleting ==
  /\ app.modalOpen /\ modal.state = "preview"
  /\ modal' = [modal EXCEPT !.processedImage = NULL,
                            !.capturedFrame = NULL,
                            !.state = "webcam",
                            !.error = NULL,
                            !.viewingExisting = FALSE,
                            !.stream = IF @ = "active" THEN "active" ELSE "pending"]
  /\ net' = IF modal.viewingExisting /\ InFlight(net) < MaxInFlight
            THEN [net EXCEPT !.deletes = Append(@,
                    [emoji |-> currentEmoji(app, modal), live |-> TRUE])]
            ELSE net
  /\ UNCHANGED << pureVars, server, app, ev >>

\* handleRetake
handleRetake ==
  /\ app.modalOpen /\ modal.state = "preview"
  /\ modal' = [modal EXCEPT !.processedImage = NULL,
                            !.capturedFrame = NULL,
                            !.state = "webcam",
                            !.error = NULL,
                            !.viewingExisting = FALSE,
                            !.stream = IF @ = "active" THEN "active" ELSE "pending"]
  /\ UNCHANGED << pureVars, server, app, ev, net >>

\* the body shared by handleAccept (next = FALSE) and handleAcceptAndNext
AcceptBody(next) ==
  LET image == modal.processedImage
      emoji == currentEmoji(app, modal)
  IN IF image = NULL
     THEN UNCHANGED << modal, net >>
     ELSE IF emoji = EmptyStr
     THEN /\ modal' = [modal EXCEPT !.error = "input"]
          /\ net' = net
     ELSE /\ modal' = modal
          /\ net' = [net EXCEPT !.saves = Append(@,
                       [emoji |-> emoji, image |-> image, next |-> next, live |-> TRUE])]

\* Accept button
handleAccept ==
  /\ app.modalOpen /\ acceptShown(modal)
  /\ InFlight(net) < MaxInFlight
  /\ AcceptBody(FALSE)
  /\ UNCHANGED << pureVars, server, app, ev >>

\* Next button
handleAcceptAndNext ==
  /\ app.modalOpen /\ nextShown(app, modal)
  /\ InFlight(net) < MaxInFlight
  /\ AcceptBody(TRUE)
  /\ UNCHANGED << pureVars, server, app, ev >>

\* Delete button
handleDelete ==
  /\ app.modalOpen /\ deleteShown(modal)
  /\ InFlight(net) < MaxInFlight
  /\ net' = [net EXCEPT !.deletes = Append(@,
               [emoji |-> currentEmoji(app, modal), live |-> TRUE])]
  /\ UNCHANGED << pureVars, server, app, modal, ev >>

\* handleKeyDown, Enter or Space outside form elements
handleKeyDownEnter ==
  /\ app.modalOpen
  /\ IF modal.state = "webcam" /\ ~MatchesCamera(modal.error)
     THEN /\ InFlight(net) < MaxInFlight
          /\ modal' = DoCapture(modal)
          /\ net' = SendPreview(net, currentEmoji(app, modal))
     ELSE IF modal.state = "preview" /\ ~modal.viewingExisting
     THEN /\ InFlight(net) < MaxInFlight
          /\ AcceptBody(onNextDefined(app))
     ELSE UNCHANGED << modal, net >>
  /\ UNCHANGED << pureVars, server, app, ev >>

\* handleKeyDown, Delete or Backspace
handleKeyDownDelete ==
  /\ app.modalOpen /\ modal.state = "preview" /\ modal.viewingExisting
  /\ InFlight(net) < MaxInFlight
  /\ net' = [net EXCEPT !.deletes = Append(@,
               [emoji |-> currentEmoji(app, modal), live |-> TRUE])]
  /\ UNCHANGED << pureVars, server, app, modal, ev >>

\* previewCapture resolved: .then of handleCapture / reader.onload
previewResolve(i, img) ==
  /\ i \in 1..Len(net.previews)
  /\ net.previews[i].emoji # EmptyStr
  /\ img \in Images
  /\ modal' = [modal EXCEPT !.processedImage = img, !.state = "preview"]
  /\ net' = [net EXCEPT !.previews = RemoveAt(@, i)]
  /\ UNCHANGED << pureVars, server, app, ev >>

\* variant: the catch does not leave "processing"
PreviewCatchKeepsState(m) == [m EXCEPT !.error = "preview", !.capturedFrame = NULL]

\* the .catch of a preview request
PreviewCatch(m) ==
  [m EXCEPT !.error = "preview", !.capturedFrame = NULL, !.state = "webcam"]

\* previewCapture rejected
previewReject(i) ==
  /\ i \in 1..Len(net.previews)
  /\ modal' = PreviewCatch(modal)
  /\ net' = [net EXCEPT !.previews = RemoveAt(@, i)]
  /\ UNCHANGED << pureVars, server, app, ev >>

\* handleCaptureComplete: close the modal and refetch the gallery
CaptureComplete(a, m, n) ==
  [app |-> [a EXCEPT !.modalOpen = FALSE, !.selectedEmoji = EmptyStr,
                     !.isCustomCapture = FALSE],
   modal |-> ClosedModal,
   net |-> [DisposeModal(n, m) EXCEPT !.fetches = Refetch(@, FALSE)]]

\* handleNext up to its await: refetch the gallery
NextStart(a, m, n) ==
  [app |-> a, modal |-> m, net |-> [n EXCEPT !.fetches = Refetch(@, TRUE)]]

\* what runs after a successful saveCapture
AfterSave(req, a, m, n) ==
  IF req.next
  THEN (IF onNextDefined(a) THEN NextStart(a, m, n)
        ELSE [app |-> a, modal |-> m, net |-> n])
  ELSE CaptureComplete(a, m, n)

\* variant: the catch swallows the error
SaveCatchSilent(m) == m

\* the catch of handleAccept / handleAcceptAndNext
SaveCatch(m) == [m EXCEPT !.error = "save"]

\* the catch of handleDelete
DeleteCatch(m) == [m EXCEPT !.error = "delete"]

\* saveCapture resolved: the store took the image
saveResolve(i) ==
  /\ i \in 1..Len(net.saves)
  /\ CanEdit(server)
  /\ net.saves[i].emoji # EmptyStr
  /\ HexKey(net.saves[i].emoji) \in StoreKeys
  /\ LET req == net.saves[i]
         out == AfterSave(req, app, modal, [net EXCEPT !.saves = RemoveAt(@, i)])
     IN /\ server' = ServerPut(server, req.emoji, req.image)
        /\ app' = out.app
        /\ modal' = out.modal
        /\ net' = out.net
  /\ UNCHANGED << pureVars, ev >>

\* saveCapture rejected
saveReject(i) ==
  /\ i \in 1..Len(net.saves)
  /\ modal' = IF net.saves[i].live THEN SaveCatch(modal) ELSE modal
  /\ net' = [net EXCEPT !.saves = RemoveAt(@, i)]
  /\ UNCHANGED << pureVars, server, app, ev >>

\* deleteCapture resolved
deleteResolve(i) ==
  /\ i \in 1..Len(net.deletes)
  /\ CanEdit(server)
  /\ net.deletes[i].emoji # EmptyStr
  /\ HexKey(net.deletes[i].emoji) \in StoreKeys
  /\ server.store[HexKey(net.deletes[i].emoji)] # NULL
  /\ LET req == net.deletes[i]
         out == CaptureComplete(app, modal, [net EXCEPT !.deletes = RemoveAt(@, i)])
     IN /\ server' = ServerDelete(server, req.emoji)
        /\ app' = out.app
        /\ modal' = out.modal
        /\ net' = out.net
  /\ UNCHANGED << pureVars, ev >>

\* deleteCapture rejected
deleteReject(i) ==
  /\ i \in 1..Len(net.deletes)
  /\ modal' = IF net.deletes[i].live THEN DeleteCatch(modal) ELSE modal
  /\ net' = [net EXCEPT !.deletes = RemoveAt(@, i)]
  /\ UNCHANGED << pureVars, server, app, ev >>

\* handleNext after its await: the next uncaptured emoji after the current
\* one in cyclic registry order, 0 when every emoji is captured
IndexOf(e) ==
  IF \E i \in 1..Len(allEmojis) : allEmojis[i] = e
  THEN CHOOSE i \in 1..Len(allEmojis) : allEmojis[i] = e
  ELSE 0

\* variant: the search stops at the end of the registry
NextIndexNoWrap(a) ==
  LET n == Len(allEmojis)
      cur == IndexOf(a.selectedEmoji)
      hits == {k \in 1..n : cur + k <= n /\ allEmojis[cur + k] \notin capturedSet(a)}
  IN IF hits = {} THEN 0
     ELSE cur + (CHOOSE k \in hits : \A j \in hits : k <= j)

NextIndex(a) ==
  LET n == Len(allEmojis)
      cur == IndexOf(a.selectedEmoji)
      At(k) == ((cur - 1 + k) % n) + 1
      hits == {k \in 1..n : allEmojis[At(k)] \notin capturedSet(a)}
  IN IF hits = {} THEN 0
     ELSE At(CHOOSE k \in hits : \A j \in hits : k <= j)

NextFinish(a) ==
  IF ~a.modalOpen THEN a
  ELSE IF NextIndex(a) = 0
  THEN [a EXCEPT !.modalOpen = FALSE, !.selectedEmoji = EmptyStr]
  ELSE [a EXCEPT !.selectedEmoji = allEmojis[NextIndex(a)]]

\* a getGallery request settles: createResource applies the newest one,
\* the modal's effect runs again, and an awaiting handleNext continues
fetchDone(i) ==
  /\ i \in 1..Len(net.fetches)
  /\ LET f == net.fetches[i]
         a1 == IF f.current
               THEN [app EXCEPT !.galleryData = ServerGallery(server)]
               ELSE app
         a2 == IF f.cont THEN NextFinish(a1) ELSE a1
         n == [net EXCEPT !.fetches = RemoveAt(@, i)]
     IN /\ app' = a2
        /\ IF app.modalOpen /\ ~a2.modalOpen
           THEN /\ modal' = ClosedModal
                /\ net' = DisposeModal(n, modal)
           ELSE /\ modal' = IF a2.modalOpen
                               /\ (f.current \/ a2.selectedEmoji # app.selectedEmoji)
                            THEN ResetEffect(modal, a2)
                            ELSE modal
                /\ net' = n
  /\ UNCHANGED << pureVars, server, ev >>

\* ---------------------------------------------------------------- settings
\* loadSettings after getSettings resolved
getSettingsResolve ==
  /\ net.settingsLoad
  /\ app' = [app EXCEPT !.settings = ServerGetSettings(server),
                        !.settingsLoaded = TRUE,
                        !.settingsSource = "server"]
  /\ net' = [net EXCEPT !.settingsLoad = FALSE]
  /\ UNCHANGED << pureVars, server, modal, ev >>

\* the catch of loadSettings
LoadSettingsCatch(a) == [a EXCEPT !.settingsLoaded = TRUE]

\* getSettings rejected
getSettingsReject ==
  /\ net.settingsLoad
  /\ app' = LoadSettingsCatch(app)
  /\ net' = [net EXCEPT !.settingsLoad = FALSE]
  /\ UNCHANGED << pureVars, server, modal, ev >>

\* the delay of the save timer, in milliseconds
SaveDelay == 500

\* setTimeout: timer ids are fresh
SetTimeout(a, newSettings) ==
  [id |-> a.settingsChanges + 1, settings |-> newSettings, due |-> SaveDelay]

\* clearTimeout
ClearTimeout(timeouts, id) == {t \in timeouts : t.id # id}

\* variant: the timer set before is left running
handleSettingsChangeNoClear(a, newSettings) ==
  [a EXCEPT !.settings = newSettings,
            !.timeouts = @ \cup {SetTimeout(a, newSettings)},
            !.settingsSaveTimeout = a.settingsChanges + 1,
            !.settingsSource = "user",
            !.settingsChanges = @ + 1]

\* handleSettingsChange: the UI is updated at once; the timer set before
\* is cleared and a new one is set
handleSettingsChange(a, newSettings) ==
  [a EXCEPT !.settings = newSettings,
            !.timeouts = (IF a.settingsSaveTimeout # 0
                          THEN ClearTimeout(@, a.settingsSaveTimeout)
                          ELSE @) \cup {SetTimeout(a, newSettings)},
            !.settingsSaveTimeout = a.settingsChanges + 1,
            !.settingsSource = "user",
            !.settingsChanges = @ + 1]

\* the settings panel is shown in state "webcam"
settingsShown == app.modalOpen /\ modal.state = "webcam"

CanChange(a) == a.settingsChanges < MaxChanges

\* { ...props.settings, padding: value }
WithPadding(settings, value) == [settings EXCEPT !.padding = value]

\* { ...props.settings, keep_background: value }
WithKeepBackground(settings, value) == [settings EXCEPT !.keep_background = value]

\* variant: the handler writes the field of its neighbour
WithKeepAccessoriesForClothes(settings, value) ==
  [settings EXCEPT !.keep_accessories = value]

\* { ...props.settings, keep_clothes: value }
WithKeepClothes(settings, value) == [settings EXCEPT !.keep_clothes = value]

\* { ...props.settings, keep_accessories: value }
WithKeepAccessories(settings, value) == [settings EXCEPT !.keep_accessories = value]

\* the padding slider moved to v
handlePaddingChange(v) ==
  /\ settingsShown /\ CanChange(app) /\ v \in SliderMin..SliderMax
  /\ app' = handleSettingsChange(app, WithPadding(app.settings, SliderPadding(v)))
  /\ UNCHANGED << pureVars, server, modal, ev, net >>

handleKeepBackgroundChange(value) ==
  /\ settingsShown /\ CanChange(app)
  /\ app' = handleSettingsChange(app, WithKeepBackground(app.settings, value))
  /\ UNCHANGED << pureVars, server, modal, ev, net >>

handleKeepClothesChange(value) ==
  /\ settingsShown /\ CanChange(app)
  /\ app' = handleSettingsChange(app, WithKeepClothes(app.settings, value))
  /\ UNCHANGED << pureVars, server, modal, ev, net >>

handleKeepAccessoriesChange(value) ==
  /\ settingsShown /\ CanChange(app)
  /\ app' = handleSettingsChange(app, WithKeepAccessories(app.settings, value))
  /\ UNCHANGED << pureVars, server, modal, ev, net >>

\* time passes: d milliseconds, no further than the next timer is due
timePasses(d) ==
  /\ app.timeouts # {}
  /\ \A t \in app.timeouts : t.due >= d
  /\ app' = [app EXCEPT !.timeouts =
               {[t EXCEPT !.due = @ - d] : t \in app.timeouts}]
  /\ UNCHANGED << pureVars, server, modal, ev, net >>

\* a save timer is due: its callback sends saveSettings with the settings
\* of the change that set it
settingsSaveFire ==
  /\ Len(net.settingsSaves) < MaxInFlight
  /\ \E t \in app.timeouts :
       /\ t.due = 0
       /\ net' = [net EXCEPT !.settingsSaves = Append(@, t.settings)]
       /\ app' = [app EXCEPT !.timeouts = @ \ {t}]
  /\ UNCHANGED << pureVars, server, modal, ev >>

\* saveSettings resolved: the server stored the settings
saveSettingsResolve(i) ==
  /\ i \in 1..Len(net.settingsSaves)
  /\ server' = ServerPutSettings(server, net.settingsSaves[i])
  /\ net' = [net EXCEPT !.settingsSaves = RemoveAt(@, i)]
  /\ UNCHANGED << pureVars, app, modal, ev >>

\* saveSettings rejected: ignored
saveSettingsReject(i) ==
  /\ i \in 1..Len(net.settingsSaves)
  /\ net' = [net EXCEPT !.settingsSaves = RemoveAt(@, i)]
  /\ UNCHANGED << pureVars, server, app, modal, ev >>

\* ---------------------------------------------------------------- session
\* the App is shown on the route of a session id, SessionRedirect on "/"
Validation(sid, from) == [sessionId |-> sid, from |-> from]

\* GET /session/{id}/validate answered with status: the error thrown by
\* validateSession, or valid / invalid from the body
ValidateOutcome(srv, sid, status) ==
  LET r == handleResponse(status, NULL, "Failed to validate session")
  IN IF r.name # "ok" THEN r.name
     ELSE IF sid \in srv.sessions THEN "valid" ELSE "invalid"

\* validateAndSetSession up to its await: "Try Again" of the rate-limited
\* screen, or a further call once the session is validated
validateAndSetSession ==
  /\ app.sessionId # NULL
  /\ app.sessionState \in {"rate-limited", "valid"}
  /\ IF app.validatedSessionId = app.sessionId /\ app.sessionState = "valid"
     THEN UNCHANGED << app, net >>
     ELSE /\ app' = [app EXCEPT !.sessionState = "loading"]
          /\ net' = [net EXCEPT !.validations =
                       Append(@, Validation(app.sessionId, "App"))]
  /\ UNCHANGED << pureVars, server, modal, ev >>

\* variant: the session is taken as valid whatever the body says
ValidatedAppAnyBody(a, sid, outcome) ==
  IF outcome \in {"valid", "invalid"}
  THEN [a EXCEPT !.cookie = sid, !.validatedSessionId = sid,
                 !.sessionState = "valid"]
  ELSE [a EXCEPT !.sessionState =
          IF outcome = "RateLimitError" THEN "rate-limited" ELSE "invalid"]

\* validateAndSetSession after its await, for the session id it read at
\* its start
ValidatedApp(a, sid, outcome) ==
  IF outcome = "valid"
  THEN [a EXCEPT !.cookie = sid, !.validatedSessionId = sid,
                 !.sessionState = "valid"]
  ELSE [a EXCEPT !.sessionState =
          IF outcome = "RateLimitError" THEN "rate-limited" ELSE "invalid"]

\* validateSession settled for the App: once the state is "valid",
\* loadSettings is called and createResource fetches the gallery
validateSettle(status) ==
  /\ net.validations # << >> /\ net.validations[1].from = "App"
  /\ LET sid == net.validations[1].sessionId
         a == ValidatedApp(app, sid, ValidateOutcome(server, sid, status))
     IN /\ app' = a
        /\ net' = IF a.sessionState = "valid"
                  THEN [net EXCEPT !.validations = Tail(@),
                                   !.settingsLoad = TRUE,
                                   !.fetches = Refetch(@, FALSE)]
                  ELSE [net EXCEPT !.validations = Tail(@)]
  /\ UNCHANGED << pureVars, server, modal, ev >>

\* the App is created on the route of sid; onMount calls
\* validateAndSetSession
MountApp(a, sid) ==
  [a EXCEPT !.sessionId = sid, !.sessionState = "loading",
            !.validatedSessionId = NULL, !.rateLimited = FALSE]

\* initSession up to its first await: with a cookie the session of the
\* cookie is validated, without one a session is created
InitSessionRequests(a, n) ==
  IF a.cookie # NULL
  THEN [n EXCEPT !.validations = Append(@, Validation(a.cookie, "SessionRedirect"))]
  ELSE [n EXCEPT !.creates = @ + 1]

\* "Start New Session" of the invalid screen: navigate("/"), SessionRedirect
\* is created and its onMount calls initSession
startNewSession ==
  /\ app.sessionId # NULL /\ app.sessionState = "invalid"
  /\ app' = [app EXCEPT !.sessionId = NULL, !.rateLimited = FALSE]
  /\ net' = InitSessionRequests(app, net)
  /\ UNCHANGED << pureVars, server, modal, ev >>

\* "Try Again" of SessionRedirect
initSession ==
  /\ app.sessionId = NULL /\ app.rateLimited
  /\ app' = [app EXCEPT !.rateLimited = FALSE]
  /\ net' = InitSessionRequests(app, net)
  /\ UNCHANGED << pureVars, server, modal, ev >>

\* variant: initSession navigates to the session of the cookie unless it
\* was rate limited
redirectValidateSettleNoCheck(status) ==
  /\ net.validations # << >> /\ net.validations[1].from = "SessionRedirect"
  /\ LET sid == net.validations[1].sessionId
         outcome == ValidateOutcome(server, sid, status)
         n == [net EXCEPT !.validations = Tail(@)]
     IN IF outcome = "RateLimitError"
        THEN /\ app' = [app EXCEPT !.rateLimited = TRUE]
             /\ net' = n
        ELSE /\ app' = MountApp(app, sid)
             /\ net' = [n EXCEPT !.validations =
                          Append(@, Validation(sid, "App"))]
  /\ UNCHANGED << pureVars, server, modal, ev >>

\* initSession after validateSession settled
redirectValidateSettle(status) ==
  /\ net.validations # << >> /\ net.validations[1].from = "SessionRedirect"
  /\ LET sid == net.validations[1].sessionId
         outcome == ValidateOutcome(server, sid, status)
         n == [net EXCEPT !.validations = Tail(@)]
     IN CASE outcome = "valid" ->
               /\ app' = MountApp(app, sid)
               /\ net' = [n EXCEPT !.validations =
                            Append(@, Validation(sid, "App"))]
          [] outcome = "RateLimitError" ->
               /\ app' = [app EXCEPT !.rateLimited = TRUE]
               /\ net' = n
          [] OTHER ->
               /\ app' = app
               /\ net' = [n EXCEPT !.creates = @ + 1]
  /\ UNCHANGED << pureVars, server, modal, ev >>

\* POST /session succeeded: the server made a session with a fresh id;
\* initSession stores it in the cookie and navigates to it
createSessionResolve(sid) ==
  /\ net.creates > 0 /\ app.sessionId = NULL
  /\ sid \in SessionIds \ server.issued
  /\ server' = [server EXCEPT !.sessions = @ \cup {sid},
                              !.issued = @ \cup {sid}]
  /\ app' = MountApp([app EXCEPT !.cookie = sid], sid)
  /\ net' = [net EXCEPT !.creates = @ - 1,
                        !.validations = Append(@, Validation(sid, "App"))]
  /\ UNCHANGED << pureVars, modal, ev >>

\* createSession failed: the rate-limited screen after a 429, nothing
\* after another failure
createSessionReject(status) ==
  /\ net.creates > 0 /\ app.sessionId = NULL
  /\ status # 200
  /\ app' = IF handleResponse(status, NULL, "Failed to create session").name
                 = "RateLimitError"
            THEN [app EXCEPT !.rateLimited = TRUE]
            ELSE app
  /\ net' = [net EXCEPT !.creates = @ - 1]
  /\ UNCHANGED << pureVars, server, modal, ev >>

\* a session expires on the server
sessionExpire(sid) ==
  /\ sid \in server.sessions
  /\ server' = [server EXCEPT !.sessions = @ \ {sid}]
  /\ UNCHANGED << pureVars, app, modal, ev, net >>

\* ------------------------------------------------------------ ExportView
\* the font state the App hands to the ExportView
FontState(a) ==
  [lastGeneration |-> a.localLastGeneration,
   fontUrl |-> a.fontUrl,
   fontFamilyId |-> a.fontFamilyId,
   fontLoaded |-> a.fontLoaded]

\* before is bookkeeping of the model: the font state at the entry of the
\* running handleExport, and whether no other font request was in flight
EvInit ==
  [isExporting |-> FALSE,
   error |-> NULL,
   before |-> [font |-> FontState(AppInit), quiet |-> FALSE]]

\* loadFont up to its await: a fresh font family id, the font is fetched
LoadFontStart(a) == [a EXCEPT !.fontFamilyId = "tomoji-preview"]

\* loadFont after its await
LoadFontDone(a) == [a EXCEPT !.fontLoaded = TRUE]

\* setView: the ExportView exists while the view is "export"; on mount it
\* loads the existing font unless one is loaded already
setView(v) ==
  /\ ~overlay(app) /\ v \in {"gallery", "export", "about"} /\ v # app.view
  /\ ev' = EvInit
  /\ IF v = "export" /\ ~app.fontLoaded
     THEN /\ InFlight(net) < MaxInFlight
          /\ app' = [LoadFontStart(app) EXCEPT !.view = v]
          /\ net' = [net EXCEPT !.loads = Append(@,
                       [kind |-> "mount", live |-> TRUE, served |-> FALSE])]
     ELSE /\ app' = [app EXCEPT !.view = v]
          /\ net' = [net EXCEPT !.exports = Orphan(@), !.loads = Orphan(@)]
  /\ UNCHANGED << pureVars, server, modal >>

\* the export button is clickable
exportEnabled ==
  /\ app.view = "export" /\ ~overlay(app)
  /\ ~ev.isExporting
  /\ ~buttonDisabled(lastGeneration(app), lastCaptureEdit(app))

\* handleExport before the request
ExportStart(a) == [a EXCEPT !.fontLoaded = FALSE, !.cleared = FALSE]

\* variant: the request is sent without looking at capturedCount
handleExportUnchecked ==
  /\ exportEnabled
  /\ InFlight(net) < MaxInFlight
  /\ ev' = [isExporting |-> TRUE,
            error |-> NULL,
            before |-> [font |-> FontState(app),
                        quiet |-> InFlight(net) = 0]]
  /\ app' = ExportStart(app)
  /\ net' = [net EXCEPT !.exports = Append(@,
               [live |-> TRUE, result |-> NoTime])]
  /\ UNCHANGED << pureVars, server, modal >>

\* handleExport up to its first await
handleExport ==
  /\ exportEnabled
  /\ IF capturedCount(app) = 0
     THEN /\ ev' = [ev EXCEPT !.error = "empty"]
          /\ UNCHANGED << app, net >>
     ELSE /\ InFlight(net) < MaxInFlight
          /\ ev' = [isExporting |-> TRUE,
                    error |-> NULL,
                    before |-> [font |-> FontState(app),
                                quiet |-> InFlight(net) = 0]]
          /\ app' = ExportStart(app)
          /\ net' = [net EXCEPT !.exports = Append(@,
                       [live |-> TRUE, result |-> NoTime])]
  /\ UNCHANGED << pureVars, server, modal >>

\* the export endpoint builds the font; the response is on its way
exportServe(i) ==
  /\ i \in 1..Len(net.exports)
  /\ net.exports[i].result = NoTime
  /\ ServerHasCaptures(server) /\ CanExport(server)
  /\ server' = ServerExport(server)
  /\ net' = [net EXCEPT !.exports[i].result = server'.last_generation]
  /\ UNCHANGED << pureVars, app, modal, ev >>

\* handleExport after exportFont resolved, up to the await in loadFont
ExportDone(a, result) ==
  [LoadFontStart(a) EXCEPT !.localLastGeneration = result, !.fontUrl = "url"]

\* exportFont resolved
exportResolve(i) ==
  /\ i \in 1..Len(net.exports)
  /\ net.exports[i].result # NoTime
  /\ app' = ExportDone(app, net.exports[i].result)
  /\ net' = [net EXCEPT !.exports = RemoveAt(@, i),
                        !.loads = Append(@, [kind |-> "export",
                                             live |-> net.exports[i].live,
                                             served |-> FALSE])]
  /\ UNCHANGED << pureVars, server, modal, ev >>

\* variant: the catch without the finally block
ExportCatchStillExporting(e) == [e EXCEPT !.error = "export"]

\* catch and finally of handleExport
ExportCatch(e) == [e EXCEPT !.isExporting = FALSE, !.error = "export"]

\* exportFont rejected: the server refused the request or never got it
exportReject(i) ==
  /\ i \in 1..Len(net.exports)
  /\ net.exports[i].result = NoTime
  /\ ev' = IF net.exports[i].live THEN ExportCatch(ev) ELSE ev
  /\ net' = [net EXCEPT !.exports = RemoveAt(@, i)]
  /\ UNCHANGED << pureVars, server, app, modal >>

\* the font file is served; the response is on its way
loadServe(i) ==
  /\ i \in 1..Len(net.loads)
  /\ ~net.loads[i].served
  /\ server.font
  /\ net' = [net EXCEPT !.loads[i].served = TRUE]
  /\ UNCHANGED << pureVars, server, app, modal, ev >>

\* font.load() resolved: after loadFont, onMount stores the url and
\* handleExport reaches its finally
loadResolve(i) ==
  /\ i \in 1..Len(net.loads)
  /\ net.loads[i].served
  /\ LET l == net.loads[i]
     IN /\ app' = [LoadFontDone(app) EXCEPT
                     !.fontUrl = IF l.kind = "mount" THEN "url" ELSE @]
        /\ ev' = IF l.kind = "export" /\ l.live
                 THEN [ev EXCEPT !.isExporting = FALSE]
                 ELSE ev
  /\ net' = [net EXCEPT !.loads = RemoveAt(@, i)]
  /\ UNCHANGED << pureVars, server, modal >>

\* font.load() rejected: there is no font file, or the request failed
loadReject(i) ==
  /\ i \in 1..Len(net.loads)
  /\ ~net.loads[i].served
  /\ LET l == net.loads[i]
     IN ev' = IF l.kind = "export" /\ l.live THEN ExportCatch(ev) ELSE ev
  /\ net' = [net EXCEPT !.loads = RemoveAt(@, i)]
  /\ UNCHANGED << pureVars, server, app, modal >>

\* ------------------------------------------------------------- clear all
\* "Clear All" in the gallery, "click here" in the about view
showClear ==
  /\ ~overlay(app)
  /\ \/ app.view = "gallery" /\ capturedSet(app) # {}
     \/ app.view = "about"
  /\ app' = [app EXCEPT !.showClearConfirm = TRUE]
  /\ UNCHANGED << pureVars, server, modal, ev, net >>

\* Cancel button of the confirmation
cancelClear ==
  /\ app.showClearConfirm /\ ~app.clearing
  /\ app' = [app EXCEPT !.showClearConfirm = FALSE]
  /\ UNCHANGED << pureVars, server, modal, ev, net >>

\* handleClearAll up to its await
handleClearAll ==
  /\ app.showClearConfirm /\ ~app.clearing
  /\ InFlight(net) < MaxInFlight
  /\ app' = [app EXCEPT !.clearing = TRUE]
  /\ net' = [net EXCEPT !.clears = @ + 1]
  /\ UNCHANGED << pureVars, server, modal, ev >>

\* handleClearAll after clearSession resolved: font state reset
ClearReset(a) ==
  [a EXCEPT !.fontUrl = NULL,
            !.fontLoaded = FALSE,
            !.fontFamilyId = NULL,
            !.localLastGeneration = NoTime]

\* variant: the dialog is closed, clearing is not reset
ClearFinallyStillClearing(a) == [a EXCEPT !.showClearConfirm = FALSE]

\* the finally block of handleClearAll
ClearFinally(a) == [a EXCEPT !.clearing = FALSE, !.showClearConfirm = FALSE]

\* clearSession resolved
clearResolve(keepEdit) ==
  /\ net.clears > 0 /\ CanEdit(server)
  /\ server' = ServerClear(server, keepEdit)
  /\ app' = [ClearFinally(ClearReset(app)) EXCEPT !.cleared = TRUE]
  /\ net' = [net EXCEPT !.clears = @ - 1, !.fetches = Refetch(@, FALSE)]
  /\ UNCHANGED << pureVars, modal, ev >>

\* clearSession rejected: only the finally block runs
clearReject ==
  /\ net.clears > 0
  /\ app' = ClearFinally(app)
  /\ net' = [net EXCEPT !.clears = @ - 1]
  /\ UNCHANGED << pureVars, server, modal, ev >>

\* ------------------------------------------------------- specifications
PureIdle ==
  /\ arg = EmptyStr
  /\ res = [done |-> FALSE, extracted |-> EmptyStr, again |-> EmptyStr, valid |-> FALSE]

\* a validated, empty session with the emoji list and the gallery loaded;
\* loadSettings has been called and awaits getSettings
Init ==
  /\ PureIdle
  /\ server = ServerInit
  /\ app = AppInit
  /\ modal = ClosedModal
  /\ ev = EvInit
  /\ net = NetInit

\* accepting, deleting and the gallery: capture, preview, accept / next /
\* delete, the store and the gallery refetch
NextCapture ==
  \/ \E e \in {E1, E2} : handleEmojiClick(e)
  \/ handleCaptureClose
  \/ handleCapture
  \/ handleRetake
  \/ handleAccept
  \/ handleAcceptAndNext
  \/ handleDelete
  \/ handleKeyDownEnter
  \/ handleKeyDownDelete
  \/ \E i \in 1..MaxInFlight, img \in Images : previewResolve(i, img)
  \/ \E i \in 1..MaxInFlight : previewReject(i)
  \/ \E i \in 1..MaxInFlight : saveResolve(i)
  \/ \E i \in 1..MaxInFlight : saveReject(i)
  \/ \E i \in 1..MaxInFlight : deleteResolve(i)
  \/ \E i \in 1..MaxInFlight : deleteReject(i)
  \/ \E i \in 1..(MaxEdits + 1) : fetchDone(i)

\* the capture paths of the modal: camera start, capture, countdown,
\* upload, preview, accept and delete
NextPreview ==
  \/ handleEmojiClick(E1)
  \/ handleCaptureClose
  \/ initWebcamResolve
  \/ initWebcamReject
  \/ handleCapture
  \/ handleUpload
  \/ \E i \in 1..MaxInFlight : readerOnload(i)
  \/ \E i \in 1..MaxInFlight : readerOnerror(i)
  \/ handleDelayedCapture
  \/ countdownTick
  \/ cancelCountdown
  \/ handleRetake
  \/ handleAccept
  \/ handleDelete
  \/ handleKeyDownEnter
  \/ \E i \in 1..MaxInFlight : previewResolve(i, "img1")
  \/ \E i \in 1..MaxInFlight : previewReject(i)
  \/ \E i \in 1..MaxInFlight : saveResolve(i)
  \/ \E i \in 1..MaxInFlight : saveReject(i)
  \/ \E i \in 1..MaxInFlight : deleteResolve(i)
  \/ \E i \in 1..MaxInFlight : deleteReject(i)
  \/ \E i \in 1..(MaxEdits + 1) : fetchDone(i)

SpecPreview == Init /\ [][NextPreview]_vars

Next == NextCapture

Spec == Init /\ [][Next]_vars

MainIdle ==
  /\ server = ServerInit
  /\ app = AppInit
  /\ modal = ClosedModal
  /\ ev = EvInit
  /\ net = NetInit

mainVars == << server, app, modal, ev, net >>

InitEmoji ==
  /\ arg \in Strings
  /\ res = [done |-> FALSE, extracted |-> EmptyStr, again |-> EmptyStr, valid |-> FALSE]
  /\ MainIdle

ApplyEmoji ==
  /\ ~res.done
  /\ res' = [done |-> TRUE,
             extracted |-> extractFirstEmoji(arg),
             again |-> extractFirstEmoji(extractFirstEmoji(arg)),
             valid |-> isValidEmoji(arg)]
  /\ UNCHANGED << arg, mainVars >>

NextEmoji == ApplyEmoji

SpecEmoji == InitEmoji /\ [][NextEmoji]_vars

\* buttonState over every pair of timestamps, absent ones included
ButtonInputs == {NoTime} \cup Timestamps

InitButton ==
  /\ arg \in ButtonInputs \X ButtonInputs
  /\ res = [done |-> FALSE, disabled |-> FALSE]
  /\ MainIdle

ApplyButton ==
  /\ ~res.done
  /\ res' = [done |-> TRUE, disabled |-> buttonDisabled(arg[1], arg[2])]
  /\ UNCHANGED << arg, mainVars >>

NextButton == ApplyButton

SpecButton == InitButton /\ [][NextButton]_vars

\* the export view, clearing the session, and the capture path that edits
\* the store
NextExport ==
  \/ handleEmojiClick(E1)
  \/ handleCapture
  \/ \E i \in 1..MaxInFlight : previewResolve(i, "img1")
  \/ handleRetake
  \/ handleAccept
  \/ handleDelete
  \/ \E i \in 1..MaxInFlight : saveResolve(i)
  \/ \E i \in 1..MaxInFlight : deleteResolve(i)
  \/ \E i \in 1..(MaxEdits + 1) : fetchDone(i)
  \/ \E v \in {"gallery", "export", "about"} : setView(v)
  \/ handleExport
  \/ \E i \in 1..MaxInFlight : exportServe(i)
  \/ \E i \in 1..MaxInFlight : exportResolve(i)
  \/ \E i \in 1..MaxInFlight : exportReject(i)
  \/ \E i \in 1..MaxInFlight : loadServe(i)
  \/ \E i \in 1..MaxInFlight : loadResolve(i)
  \/ \E i \in 1..MaxInFlight : loadReject(i)
  \/ showClear
  \/ cancelClear
  \/ handleClearAll
  \/ \E keepEdit \in BOOLEAN : clearResolve(keepEdit)
  \/ clearReject

SpecExport == Init /\ [][NextExport]_vars

\* adding a custom emoji next to a registry emoji: the custom input, every
\* trigger of a capture, accept and the store
NextCustom ==
  \/ handleEmojiClick(E1)
  \/ handleAddCustomEmoji
  \/ \E raw \in RawInputs : handleEmojiInput(raw)
  \/ handleCaptureClose
  \/ handleCapture
  \/ handleUpload
  \/ \E i \in 1..MaxInFlight : readerOnload(i)
  \/ handleDelayedCapture
  \/ countdownTick
  \/ cancelCountdown
  \/ handleKeyDownEnter
  \/ \E i \in 1..MaxInFlight : previewResolve(i, "img1")
  \/ \E i \in 1..MaxInFlight : previewReject(i)
  \/ handleAccept
  \/ \E i \in 1..MaxInFlight : saveResolve(i)
  \/ \E i \in 1..(MaxEdits + 1) : fetchDone(i)

SpecCustom == Init /\ [][NextCustom]_vars

\* a session that may have saved settings on an earlier visit
InitSettings ==
  /\ PureIdle
  /\ server \in {ServerInit, ServerPutSettings(ServerInit, SavedSettings)}
  /\ app = AppInit
  /\ modal = ClosedModal
  /\ ev = EvInit
  /\ net = NetInit

\* the capture settings: loading, changing in the modal, saving, and the
\* preview requests that use them
NextSettings ==
  \/ getSettingsResolve
  \/ getSettingsReject
  \/ handleEmojiClick(E1)
  \/ handleCaptureClose
  \/ \E v \in SliderStops : handlePaddingChange(v)
  \/ \E value \in BOOLEAN : handleKeepBackgroundChange(value)
  \/ \E value \in BOOLEAN : handleKeepClothesChange(value)
  \/ \E value \in BOOLEAN : handleKeepAccessoriesChange(value)
  \/ \E d \in {250, 500} : timePasses(d)
  \/ settingsSaveFire
  \/ \E i \in 1..MaxInFlight : saveSettingsResolve(i)
  \/ \E i \in 1..MaxInFlight : saveSettingsReject(i)
  \/ handleCapture
  \/ \E i \in 1..MaxInFlight : previewReject(i)

SpecSettings == InitSettings /\ [][NextSettings]_vars

\* the entry lists list(session) can return: per hex key no capture, or the
\* capture of a glyph with that key
GlyphsOf(k) == {g \in Strings : isValidEmoji(g) /\ HexKey(g) = k}

EntriesOf(k) ==
  {<< >>} \cup {<< [emoji |-> g, image_data |-> img] >> :
                   g \in GlyphsOf(k), img \in Images}

AssembleInputs ==
  {a \o b : a \in EntriesOf(HexKey(E1)), b \in EntriesOf(HexKey(E2))}

InitAssemble ==
  /\ arg \in AssembleInputs
  /\ res = [done |-> FALSE, failed |-> FALSE, font |-> Assemble(<< >>)]
  /\ MainIdle

\* export of the entries: EmptyCaptureSet when there are none
ApplyAssemble ==
  /\ ~res.done
  /\ res' = IF arg = << >>
            THEN [res EXCEPT !.done = TRUE, !.failed = TRUE]
            ELSE [res EXCEPT !.done = TRUE, !.font = Assemble(arg)]
  /\ UNCHANGED << arg, mainVars >>

NextAssemble == ApplyAssemble

SpecAssemble == InitAssemble /\ [][NextAssemble]_vars

\* tryGetUserMedia: the constraint sets in the order they are tried
constraintsList == << "ideal640x480+facingMode", "facingMode", "video" >>

\* what getUserMedia answers to a constraint set: a stream, or one of its
\* errors
CameraAnswers == {"stream", "NotAllowedError", "NotFoundError", "OverconstrainedError"}

\* variant: the error of the first failed attempt is kept
TryConstraintsKeepFirstError(r, answer) ==
  IF answer = "stream"
  THEN [r EXCEPT !.tried = Append(@, constraintsList[r.next]),
                 !.done = TRUE,
                 !.stream = constraintsList[r.next]]
  ELSE [r EXCEPT !.tried = Append(@, constraintsList[r.next]),
                 !.next = @ + 1,
                 !.lastError = IF @ = NULL THEN answer ELSE @]

\* one pass of the loop of tryGetUserMedia: getUserMedia is awaited for
\* the next constraint set; its stream is returned, its error is kept
TryConstraints(r, answer) ==
  IF answer = "stream"
  THEN [r EXCEPT !.tried = Append(@, constraintsList[r.next]),
                 !.done = TRUE,
                 !.stream = constraintsList[r.next]]
  ELSE [r EXCEPT !.tried = Append(@, constraintsList[r.next]),
                 !.next = @ + 1,
                 !.lastError = answer]

\* the camera answers each constraint set in its own way; tryGetUserMedia
\* has been called and has tried nothing yet
InitWebcam ==
  /\ arg \in [1..Len(constraintsList) -> CameraAnswers]
  /\ res = [done |-> FALSE, next |-> 1, tried |-> << >>, lastError |-> NULL,
            stream |-> NULL, thrown |-> NULL]
  /\ MainIdle

\* tryGetUserMedia tries the next constraint set
tryGetUserMediaNext ==
  /\ ~res.done /\ res.next <= Len(constraintsList)
  /\ res' = TryConstraints(res, arg[res.next])
  /\ UNCHANGED << arg, mainVars >>

\* the loop is over: tryGetUserMedia throws
tryGetUserMediaThrow ==
  /\ ~res.done /\ res.next > Len(constraintsList)
  /\ res' = [res EXCEPT !.done = TRUE,
                        !.thrown = IF res.lastError # NULL THEN res.lastError
                                   ELSE "Failed to access camera"]
  /\ UNCHANGED << arg, mainVars >>

NextWebcam ==
  \/ tryGetUserMediaNext
  \/ tryGetUserMediaThrow

SpecWebcam == InitWebcam /\ [][NextWebcam]_vars

\* the API functions: the two session functions use handleResponse, the
\* session-scoped ones check res.ok themselves
ApiCalls ==
  [session |-> {"createSession", "validateSession"},
   detail |-> {"previewCapture", "saveCapture", "exportFont"},
   plain |-> {"getGallery", "deleteCapture", "clearSession", "getSettings",
              "saveSettings"}]

\* the message each function gives its error by default
errorMessage(call) ==
  CASE call = "createSession" -> "Failed to create session"
    [] call = "validateSession" -> "Failed to validate session"
    [] call = "getGallery" -> "Failed to fetch gallery"
    [] call = "previewCapture" -> "Preview failed"
    [] call = "saveCapture" -> "Save failed"
    [] call = "deleteCapture" -> "Failed to delete capture"
    [] call = "clearSession" -> "Failed to clear session"
    [] call = "exportFont" -> "Export failed"
    [] call = "getSettings" -> "Failed to fetch settings"
    [] call = "saveSettings" -> "Failed to save settings"

\* what an API function throws for a response, "ok" when it returns; the
\* body is JSON with a detail, JSON without one, or not JSON
ApiThrows(call, status, body) ==
  LET detail == IF body = "detail" THEN "detail" ELSE NULL
  IN IF call \in ApiCalls.session
     THEN handleResponse(status, detail, errorMessage(call))
     ELSE IF status = 200 THEN [name |-> "ok", message |-> NULL]
     ELSE IF call \in ApiCalls.plain
          THEN [name |-> "Error", message |-> errorMessage(call)]
          ELSE IF body = "notjson"
               THEN [name |-> "SyntaxError", message |-> "not JSON"]
               ELSE [name |-> "Error",
                     message |-> IF detail # NULL THEN detail
                                 ELSE errorMessage(call)]

InitApi ==
  /\ arg \in (ApiCalls.session \cup ApiCalls.detail \cup ApiCalls.plain)
             \X Statuses \X {"detail", "nodetail", "notjson"}
  /\ res = [done |-> FALSE, error |-> [name |-> "ok", message |-> NULL]]
  /\ MainIdle

\* the response arrives and the function returns or throws
ApplyApi ==
  /\ ~res.done
  /\ res' = [done |-> TRUE, error |-> ApiThrows(arg[1], arg[2], arg[3])]
  /\ UNCHANGED << arg, mainVars >>

NextApi == ApplyApi

SpecApi == InitApi /\ [][NextApi]_vars

\* opening the site: on "/" or on the route of a session id, with or
\* without a session cookie of an earlier visit; the server holds the
\* sessions that have not expired.  The component of the route is mounted.
InitSession ==
  /\ PureIdle
  /\ modal = ClosedModal
  /\ ev = EvInit
  /\ \E issued \in SUBSET SessionIds :
       \E sessions \in SUBSET issued :
         \E cookie \in {NULL} \cup issued :
           \E route \in {NULL} \cup SessionIds :
             LET a == [AppInit EXCEPT !.cookie = cookie,
                                      !.sessionId = NULL,
                                      !.sessionState = "loading",
                                      !.validatedSessionId = NULL]
                 n == [NetInit EXCEPT !.settingsLoad = FALSE]
             IN /\ server = [ServerInit EXCEPT !.sessions = sessions,
                                               !.issued = issued]
                /\ IF route = NULL
                   THEN /\ app = a
                        /\ net = InitSessionRequests(a, n)
                   ELSE /\ app = MountApp(a, route)
                        /\ net = [n EXCEPT !.validations =
                                    << Validation(route, "App") >>]

\* the session of the page: redirect, validation, creation, expiry, and
\* the requests a validated session starts
NextSession ==
  \/ validateAndSetSession
  \/ \E status \in Statuses : validateSettle(status)
  \/ startNewSession
  \/ initSession
  \/ \E status \in Statuses : redirectValidateSettle(status)
  \/ \E sid \in SessionIds : createSessionResolve(sid)
  \/ \E status \in Statuses : createSessionReject(status)
  \/ \E sid \in SessionIds : sessionExpire(sid)
  \/ getSettingsResolve
  \/ getSettingsReject
  \/ \E i \in 1..(MaxEdits + 1) : fetchDone(i)

SpecSession == InitSession /\ [][NextSession]_vars

\* ------------------------------------------------------------ properties
\* "strictly later", on the fields of the timestamps
Later(t1, t2) == t1[1] > t2[1] \/ (t1[1] = t2[1] /\ t1[2] > t2[2])

\* C1: isValidEmoji(s) holds iff s is exactly one grapheme and that
\* grapheme is pictographic; a valid s is its own extraction; extracting
\* twice gives what extracting once gives.  Empty, non-pictographic and
\* multi-grapheme strings are invalid.
ValidEmojiIsOnePictographicGrapheme ==
  res.done =>
    /\ res.valid <=> (Len(Segments(arg)) = 1 /\ EmojiRegexTest(Segments(arg)[1]))
    /\ res.valid => res.extracted = arg
    /\ res.again = res.extracted
    /\ arg = EmptyStr => ~res.valid

\* a joined sequence of two pictographs is accepted as one emoji
W_ValidJoinedEmoji ==
  res.done /\ res.valid /\ arg = << "p1", "zwj", "p2" >>

\* C2: the export button is enabled iff there is no generation yet, or
\* there is a capture edit strictly later than the generation; otherwise it
\* is disabled.
ButtonEnabledIffStale ==
  res.done =>
    (~res.disabled <=>
       (arg[1] = NoTime \/ (arg[2] # NoTime /\ Later(arg[2], arg[1]))))

\* an edit half a second after the generation, in the same second
W_EditSameSecondLater ==
  /\ res.done /\ ~res.disabled
  /\ arg[1] # NoTime /\ arg[2] # NoTime
  /\ arg[1][1] = arg[2][1]

\* what the export view reports
UpToDate(a) == buttonDisabled(lastGeneration(a), lastCaptureEdit(a))

\* the client has fetched the gallery after the last store write and holds
\* the timestamp of the last export
InSync ==
  /\ app.galleryData.last_capture_edit = server.last_capture_edit
  /\ app.localLastGeneration = server.last_generation
  /\ server.last_generation # NoTime

\* C3: once the client has the result of the last export and the gallery
\* fetched after the last save or delete, the export view reports up to
\* date exactly when no capture was written or deleted after that export:
\* up to date after an export, stale after a later save or delete, up to
\* date again after a further export.
StalenessFollowsEdits == InSync => (UpToDate(app) <=> ~server.stale)

\* save, export, save again, export again: reported up to date
W_UpToDateAfterSecondExport ==
  /\ InSync /\ UpToDate(app) /\ app.view = "export"
  /\ server.exports = 2
  /\ server.last_capture_edit = ServerTimestamp(3)
  /\ server.last_generation = ServerTimestamp(4)

\* C4: when exportFont rejects in a handleExport that ran with no other
\* font request in flight, the font state (lastGeneration, fontUrl,
\* fontFamilyId, fontLoaded) is what it was when handleExport was called.
FailedExportKeepsFontState ==
  [][\A i \in 1..Len(net.exports) :
       (exportReject(i) /\ net.exports[i].live /\ ev.before.quiet)
         => FontState(app') = ev.before.font]_vars

\* C5: two save requests for the same emoji are never in flight together.
SavesSerializedPerEmoji ==
  \A i, j \in 1..Len(net.saves) :
    i # j => net.saves[i].emoji # net.saves[j].emoji

\* a step of the capture, upload or countdown path
PreviewPathStep ==
  \/ handleCapture
  \/ handleUpload
  \/ countdownTick
  \/ \E i \in 1..Len(net.reads) : readerOnload(i)
  \/ Len(net'.previews) > Len(net.previews)

\* C6: capture, upload and countdown send preview requests only and leave
\* the store alone; a save request is sent only with the modal in state
\* "preview", not viewing an existing capture, and carries its non-null
\* processedImage; a delete request is sent only in state "preview" while
\* viewing an existing capture; the store changes only when a save or
\* delete request is answered.
PreviewPathNeverWrites ==
  [][/\ PreviewPathStep =>
          /\ net'.saves = net.saves
          /\ net'.deletes = net.deletes
          /\ server' = server
     /\ Len(net'.saves) > Len(net.saves) =>
          /\ app.modalOpen /\ modal.state = "preview"
          /\ ~modal.viewingExisting
          /\ modal.processedImage # NULL
          /\ net'.saves[Len(net'.saves)].image = modal.processedImage
     /\ Len(net'.deletes) > Len(net.deletes) =>
          /\ app.modalOpen /\ modal.state = "preview"
          /\ modal.viewingExisting
     /\ server'.store # server.store =>
          \/ Len(net'.saves) < Len(net.saves)
          \/ Len(net'.deletes) < Len(net.deletes)]_vars

\* a save of a new preview and a delete of the existing capture are in flight
W_SaveAfterPreview ==
  /\ Len(net.saves) = 1 /\ net.saves[1].live
  /\ Len(net.deletes) = 1
  /\ modal.state = "preview"

ClearedFontStaysCleared ==
  app.cleared =>
    /\ app.fontUrl = NULL
    /\ ~app.fontLoaded
    /\ app.localLastGeneration = NoTime

\* the captured entries the store holds
StoreEntries(srv) ==
  {[emoji |-> srv.glyph[k], image_data |-> srv.store[k]] :
     k \in {e \in StoreKeys : srv.store[e] # NULL}}

\* C10: capturedMap holds at most one entry per emoji, capturedSet is its
\* key set, the gallery lists no emoji twice, and a save makes the saved
\* image the one entry of its emoji, which is what the next gallery fetch
\* shows.
OneCapturePerEmoji ==
  /\ [](/\ \A c, d \in capturedMap(app) : c.emoji = d.emoji => c = d
        /\ capturedSet(app) = {c.emoji : c \in capturedMap(app)}
        /\ Len(app.galleryData.captured) = Cardinality(capturedSet(app)))
  /\ [][/\ \A i \in 1..Len(net.saves) :
             saveResolve(i) =>
               /\ {c \in StoreEntries(server') : c.emoji = net.saves[i].emoji}
                    = {[emoji |-> net.saves[i].emoji,
                        image_data |-> net.saves[i].image]}
               /\ \A c \in StoreEntries(server') :
                    c.emoji # net.saves[i].emoji => c \in StoreEntries(server)
        /\ \A i \in 1..Len(net.fetches) :
             (fetchDone(i) /\ net.fetches[i].current) =>
               capturedMap(app') = StoreEntries(server)]_vars

\* the emoji was saved twice and the gallery shows the second image only
W_CaptureReplaced ==
  /\ server.clock = 2
  /\ server.store = [k \in StoreKeys |-> IF k = HexKey(E1) THEN "img2" ELSE NULL]
  /\ capturedMap(app) = {[emoji |-> E1, image_data |-> "img2"]}

\* capturedMap().get(e)?.image_data, NULL when absent
ImageOf(a, e) ==
  IF \E c \in capturedMap(a) : c.emoji = e
  THEN (CHOOSE c \in capturedMap(a) : c.emoji = e).image_data
  ELSE NULL

\* C11: a successful Accept save and a successful delete refetch the
\* gallery; the gallery that createResource takes from a fetch holds, for
\* every emoji, the image the store holds (the saved image after a save,
\* nothing after a delete); opening the modal for an emoji with a capture
\* shows that image in state "preview" with viewingExisting, and for an
\* emoji without one starts in state "webcam".
PutThenGet ==
  [][/\ \A i \in 1..Len(net.saves) :
          (saveResolve(i) /\ ~net.saves[i].next) =>
            /\ [emoji |-> net.saves[i].emoji, image_data |-> net.saves[i].image]
                 \in StoreEntries(server')
            /\ net'.fetches # << >>
            /\ net'.fetches[Len(net'.fetches)].current
     /\ \A i \in 1..Len(net.deletes) :
          deleteResolve(i) =>
            /\ \A c \in StoreEntries(server') : c.emoji # net.deletes[i].emoji
            /\ net'.fetches # << >>
            /\ net'.fetches[Len(net'.fetches)].current
     /\ \A i \in 1..Len(net.fetches) :
          (fetchDone(i) /\ net.fetches[i].current) =>
            /\ \A c \in StoreEntries(server) :
                 ImageOf(app', c.emoji) = c.image_data
            /\ capturedSet(app') = {c.emoji : c \in StoreEntries(server)}
     /\ \A e \in {E1, E2} :
          handleEmojiClick(e) =>
            IF e \in capturedSet(app)
            THEN /\ modal'.state = "preview"
                 /\ modal'.processedImage = ImageOf(app, e)
                 /\ modal'.processedImage # NULL
                 /\ modal'.viewingExisting
            ELSE /\ modal'.state = "webcam"
                 /\ modal'.processedImage = NULL
                 /\ ~modal'.viewingExisting]_vars

\* saved, shown again and deleted: the modal reopened for the emoji starts
\* with the camera
W_ReopenedAfterDelete ==
  /\ server.clock = 2
  /\ StoreEntries(server) = {}
  /\ capturedSet(app) = {}
  /\ net.fetches = << >>
  /\ app.modalOpen /\ app.selectedEmoji = E1
  /\ modal.state = "webcam" /\ ~modal.viewingExisting

\* C12: saving a capture for one emoji leaves the captures stored for every
\* other emoji as they are, because different emojis have different keys.
SaveKeepsOtherCaptures ==
  [][\A i \in 1..Len(net.saves) :
       saveResolve(i) =>
         \A c \in StoreEntries(server) :
           c.emoji # net.saves[i].emoji => c \in StoreEntries(server')]_vars

\* C17: every preview request and every save request carries a valid
\* single pictographic grapheme, also those sent while a custom emoji is
\* being added.
RequestsCarryValidEmoji ==
  /\ \A i \in 1..Len(net.previews) : isValidEmoji(net.previews[i].emoji)
  /\ \A i \in 1..Len(net.saves) : isValidEmoji(net.saves[i].emoji)

\* C13: handleExport with capturedCount = 0 sends no request, sets a
\* non-null error and leaves isExporting, fontLoaded, fontUrl, fontFamilyId
\* and lastGeneration as they were.
EmptyExportHasNoEffect ==
  [][(handleExport /\ capturedCount(app) = 0) =>
       /\ ev'.error # NULL
       /\ ev'.isExporting = ev.isExporting
       /\ net' = net
       /\ server' = server
       /\ FontState(app') = FontState(app)
       /\ lastGeneration(app') = lastGeneration(app)]_vars

\* the font was generated and loaded, its only capture deleted, and the
\* export was refused
W_EmptyExportRefused ==
  /\ ev.error = "empty" /\ ~ev.isExporting
  /\ capturedCount(app) = 0
  /\ app.fontLoaded /\ app.fontUrl = "url"
  /\ net.exports = << >>

\* C14: as long as neither a loaded value nor the user has set them, the
\* settings are padding 0, keep_background false, keep_clothes false,
\* keep_accessories true, and a preview request sent then carries these;
\* a failed getSettings sets settingsLoaded, leaves the settings as they
\* are and shows no error.
DefaultsWhenAbsent ==
  /\ [](app.settingsSource = "default" =>
          app.settings = [padding |-> 0,
                          keep_background |-> FALSE,
                          keep_clothes |-> FALSE,
                          keep_accessories |-> TRUE])
  /\ [][/\ (Len(net'.previews) > Len(net.previews)
              /\ app.settingsSource = "default") =>
             net'.previews[Len(net'.previews)].params =
               [padding |-> 0,
                keep_background |-> FALSE,
                keep_clothes |-> FALSE,
                keep_accessories |-> TRUE]
        /\ getSettingsReject =>
             /\ app'.settingsLoaded
             /\ app'.settings = app.settings
             /\ app'.settingsSource = app.settingsSource
             /\ modal'.error = modal.error
             /\ ev'.error = ev.error]_vars

\* the session has saved settings, the load failed, and a preview request
\* went out with the defaults
W_LoadFailedDefaultsUsed ==
  /\ app.settingsLoaded /\ ~net.settingsLoad
  /\ app.settingsSource = "default"
  /\ server.settings = << SavedSettings >>
  /\ Len(net.previews) = 1
  /\ net.previews[1].params = defaultSettings
  /\ modal.error = NULL

\* the settings the pending timers will save
PendingSaves(a) == {t.settings : t \in a.timeouts}

SettingsFields == {"padding", "keep_background", "keep_clothes", "keep_accessories"}

\* new agrees with old on every field but own
OnlyFieldChanged(old, new, own) ==
  \A f \in SettingsFields \ {own} : new[f] = old[f]

\* C15: each of the four settings handlers hands handleSettingsChange a
\* value that has the given value in its own field and agrees with the
\* current settings in the three other fields; a padding set from the
\* slider lies in [0,1].
SettingsFieldsIndependent ==
  [][/\ \A v \in SliderStops :
          handlePaddingChange(v) =>
            /\ app'.settings.padding = SliderPadding(v)
            /\ InUnitInterval(app'.settings.padding)
            /\ OnlyFieldChanged(app.settings, app'.settings, "padding")
            /\ app'.settings \in PendingSaves(app')
     /\ \A value \in BOOLEAN :
          /\ handleKeepBackgroundChange(value) =>
               /\ app'.settings.keep_background = value
               /\ OnlyFieldChanged(app.settings, app'.settings, "keep_background")
               /\ app'.settings \in PendingSaves(app')
          /\ handleKeepClothesChange(value) =>
               /\ app'.settings.keep_clothes = value
               /\ OnlyFieldChanged(app.settings, app'.settings, "keep_clothes")
               /\ app'.settings \in PendingSaves(app')
          /\ handleKeepAccessoriesChange(value) =>
               /\ app'.settings.keep_accessories = value
               /\ OnlyFieldChanged(app.settings, app'.settings, "keep_accessories")
               /\ app'.settings \in PendingSaves(app')]_vars

\* the slider was moved to its maximum and clothes were switched on
W_PaddingAndClothesSet ==
  /\ app.settingsSource = "user"
  /\ app.settings = [padding |-> 100,
                     keep_background |-> FALSE,
                     keep_clothes |-> TRUE,
                     keep_accessories |-> TRUE]
  /\ app.settings \in PendingSaves(app)

\* C16: assembling n >= 1 entries gives n + 1 glyphs, glyph 0 is .notdef,
\* the i-th entry is glyph i, the cmap resolves the lead scalar of each
\* entry to the index of that entry, and different entries resolve to
\* different indices, none of them 0.
GlyphIndicesFollowInput ==
  (res.done /\ ~res.failed) =>
    LET n == Len(arg)
        font == res.font
    IN /\ n >= 1
       /\ Len(font.glyphOrder) = n + 1
       /\ font.glyphOrder[0 + 1] = ".notdef"
       /\ \A i \in 1..n :
            /\ font.glyphOrder[i + 1] = arg[i].emoji
            /\ font.cmap[arg[i].emoji[1]] = i
       /\ \A i, j \in 1..n :
            i # j => font.cmap[arg[i].emoji[1]] # font.cmap[arg[j].emoji[1]]

\* two captures, the second of a multi-scalar glyph: three glyphs
W_TwoCapturesThreeGlyphs ==
  /\ res.done /\ ~res.failed
  /\ Len(arg) = 2
  /\ arg[2].emoji = << "p2", "vs" >>
  /\ Len(res.font.glyphOrder) = 3
  /\ res.font.cmap["p1"] = 1 /\ res.font.cmap["p2"] = 2

\* C18: when the modal gets an emoji (it is opened, or handleNext selects
\* another emoji) its state is reset: with a capture of that emoji, state
\* "preview", processedImage that capture's image, viewingExisting true;
\* without one, state "webcam", processedImage null, viewingExisting
\* false; capturedFrame and error are null in both cases.
EmojiChangeResetsModal ==
  [][(app'.modalOpen /\ (~app.modalOpen \/ app'.selectedEmoji # app.selectedEmoji)) =>
       /\ IF existingCapture(app') # NULL
          THEN /\ modal'.state = "preview"
               /\ modal'.processedImage = existingCapture(app')
               /\ modal'.viewingExisting
          ELSE /\ modal'.state = "webcam"
               /\ modal'.processedImage = NULL
               /\ ~modal'.viewingExisting
       /\ modal'.capturedFrame = NULL
       /\ modal'.error = NULL]_vars

\* the modal opened for the first emoji was moved on to the second by
\* handleNext and shows the camera
W_MovedToNextEmoji ==
  /\ app.modalOpen /\ app.selectedEmoji = E2
  /\ modal.customEmojiInput = E1
  /\ capturedSet(app) = {E1}
  /\ modal.state = "webcam" /\ modal.processedImage = NULL
  /\ net.fetches = << >> /\ net.saves = << >> /\ net.previews = << >>

DelayedCaptureCountsDown ==
  /\ [](/\ modal.timers <= 1
        /\ modal.timers = 1 <=> modal.countdown \in 1..3
        /\ modal.timers = 1 <=> modal.countdownInterval
        /\ modal.timers = 0 => modal.countdown = 0)
  /\ [][/\ handleDelayedCapture =>
             /\ modal'.countdown = 3 /\ modal'.timers = 1
             /\ net' = net
        /\ countdownTick =>
             IF modal.countdown = 1
             THEN /\ Len(net'.previews) = Len(net.previews) + 1
                  /\ modal'.state = "processing"
                  /\ modal'.countdown = 0 /\ modal'.timers = 0
             ELSE /\ modal.countdown \in 2..3
                  /\ modal'.countdown = modal.countdown - 1
                  /\ modal'.timers = 1
                  /\ net' = net
        /\ cancelCountdown =>
             /\ modal'.countdown = 0 /\ modal'.timers = 0
             /\ net' = net
        /\ (app.modalOpen /\ ~app'.modalOpen) =>
             /\ modal'.countdown = 0 /\ modal'.timers = 0
             /\ net'.previews = << >>]_vars

\* two ticks have passed, the camera runs, the capture is due
W_CountdownAtOne ==
  /\ app.modalOpen /\ modal.state = "webcam"
  /\ modal.countdown = 1 /\ modal.timers = 1
  /\ modal.stream = "active"
  /\ net.previews = << >>

\* C21: the session state of the App becomes "valid" only in the step in
\* which validateSession answers valid = true for the session id of the
\* route, and then validatedSessionId and the cookie equal that id; a 429
\* gives "rate-limited", valid = false or another failure "invalid";
\* gallery and settings requests exist only in state "valid" and are
\* started only by the step that reaches it; a call of
\* validateAndSetSession for the validated id changes nothing.
SessionValidatedBeforeUse ==
  /\ []((net.settingsLoad \/ net.fetches # << >>) =>
          /\ app.sessionState = "valid"
          /\ app.validatedSessionId = app.sessionId)
  /\ [][/\ (app'.sessionState = "valid" /\ app.sessionState # "valid") =>
             /\ net.validations # << >>
             /\ net.validations[1] = Validation(app.sessionId, "App")
             /\ app.sessionId \in server.sessions
             /\ app'.sessionId = app.sessionId
             /\ app'.validatedSessionId = app.sessionId
             /\ app'.cookie = app.sessionId
        /\ \A status \in Statuses :
             validateSettle(status) =>
               app'.sessionState =
                 IF status = 429 THEN "rate-limited"
                 ELSE IF status = 200
                         /\ net.validations[1].sessionId \in server.sessions
                      THEN "valid"
                      ELSE "invalid"
        /\ (net'.settingsLoad /\ ~net.settingsLoad) =>
             (app'.sessionState = "valid" /\ app.sessionState # "valid")
        /\ Len(net'.fetches) > Len(net.fetches) =>
             (app'.sessionState = "valid" /\ app.sessionState # "valid")
        /\ (/\ validateAndSetSession
            /\ app.sessionState = "valid"
            /\ app.validatedSessionId = app.sessionId) =>
             UNCHANGED << app, net, server >>]_vars

\* the session of the route is validated and stored in the cookie; its
\* gallery and settings are being fetched
W_SessionValidated ==
  /\ app.sessionState = "valid"
  /\ app.sessionId = "s2" /\ app.validatedSessionId = "s2"
  /\ app.cookie = "s2"
  /\ server.issued = {"s2"}
  /\ net.settingsLoad /\ Len(net.fetches) = 1

\* C22: initSession navigates to the session of the cookie exactly when
\* validateSession reported it valid; a createSession request is sent only
\* without a cookie session, or after the cookie session was reported
\* invalid or its validation failed otherwise than by a rate limit; a
\* rate-limited validation creates nothing, does not navigate and shows
\* the rate-limited screen; the cookie is only ever set to an id that
\* createSession returned.
RedirectFollowsValidation ==
  [][/\ \A status \in Statuses :
          redirectValidateSettle(status) =>
            LET sid == net.validations[1].sessionId
                valid == status = 200 /\ sid \in server.sessions
            IN /\ sid = app.cookie
               /\ app'.sessionId = sid <=> valid
               /\ ~valid => app'.sessionId = NULL
               /\ net'.creates > net.creates <=> (~valid /\ status # 429)
               /\ status = 429 =>
                    /\ app'.rateLimited /\ app'.sessionId = NULL
                    /\ net'.creates = 0 /\ net'.validations = << >>
                    /\ server' = server
               /\ app'.cookie = app.cookie
     /\ net'.creates > net.creates =>
          \/ app.cookie = NULL /\ (initSession \/ startNewSession)
          \/ \E status \in Statuses \ {429} : redirectValidateSettle(status)
     /\ (app.sessionId = NULL /\ app'.sessionId # NULL) =>
          \/ \E status \in Statuses : redirectValidateSettle(status)
          \/ /\ app'.sessionId \in server'.issued \ server.issued
             /\ app'.cookie = app'.sessionId
     /\ app'.cookie # app.cookie => app'.cookie \in server'.issued
     /\ (app.sessionId = NULL /\ app'.cookie # app.cookie) =>
          app'.cookie \in server'.issued \ server.issued]_vars

\* the validation of the cookie session was rate limited: the rate-limited
\* screen is shown on "/", no session was created, nothing is in flight
W_RedirectRateLimited ==
  /\ app.sessionId = NULL /\ app.rateLimited
  /\ app.cookie = "s1" /\ "s1" \in server.sessions
  /\ server.issued = {"s1"}
  /\ net.creates = 0 /\ net.validations = << >>

\* C23: every settings change shows in the UI at once and leaves exactly
\* one save timer pending, due in 500 ms; at most one timer is pending at
\* any time; a saveSettings request is sent only by a timer that is due,
\* which is the timer of the last change, 500 ms after that change, and
\* the request carries the settings of that change; after it no timer is
\* pending; a failed save changes no client state.
SaveIsDebounced ==
  /\ [](Cardinality(app.timeouts) <= 1)
  /\ [][/\ app'.settingsChanges > app.settingsChanges =>
             /\ app'.settingsSource = "user"
             /\ app'.timeouts =
                  {[id |-> app'.settingsSaveTimeout,
                    settings |-> app'.settings,
                    due |-> SaveDelay]}
             /\ net' = net
        /\ Len(net'.settingsSaves) > Len(net.settingsSaves) =>
             /\ settingsSaveFire
             /\ \E t \in app.timeouts :
                  /\ t.id = app.settingsChanges /\ t.due = 0
                  /\ net'.settingsSaves = Append(net.settingsSaves, t.settings)
                  /\ app.settingsSource = "user" => t.settings = app.settings
             /\ app'.timeouts = {}
             /\ app'.settings = app.settings
        /\ \A i \in 1..MaxInFlight :
             saveSettingsReject(i) =>
               /\ Len(net'.settingsSaves) = Len(net.settingsSaves) - 1
               /\ UNCHANGED << app, modal, ev, server >>]_vars

\* two changes in a burst: the timer of the first was cleared, the timer
\* of the second is due after 500 ms and nothing has been sent or saved
W_BurstTimerDue ==
  /\ app.settingsChanges = 2
  /\ app.settingsSaveTimeout = 2
  /\ app.timeouts = {[id |-> 2, settings |-> app.settings, due |-> 0]}
  /\ net.settingsSaves = << >>
  /\ server.settings = << >>
  /\ app.settings.keep_clothes /\ app.settings.keep_background

\* C24: isExporting of the export view is true exactly while an export
\* request of its handleExport, or the font load that follows it, has not
\* settled; handleExport sets it with the request, and the step that
\* settles the last of the two (export failed, font load failed, font
\* loaded) resets it; while it is true handleExport is not started again.
ExportingWhileInFlight ==
  /\ [](ev.isExporting <=>
          \/ \E i \in 1..Len(net.exports) : net.exports[i].live
          \/ \E i \in 1..Len(net.loads) :
               net.loads[i].live /\ net.loads[i].kind = "export")
  /\ [](Cardinality({i \in 1..Len(net.exports) : net.exports[i].live})
          + Cardinality({i \in 1..Len(net.loads) :
               net.loads[i].live /\ net.loads[i].kind = "export"}) <= 1)
  /\ [][/\ handleExport => ~ev.isExporting
        /\ (handleExport /\ capturedCount(app) > 0) =>
             /\ ev'.isExporting
             /\ Len(net'.exports) = Len(net.exports) + 1
        /\ (ev.isExporting /\ ~ev'.isExporting /\ app'.view = app.view) =>
             \/ \E i \in 1..MaxInFlight : exportReject(i) /\ ev'.error = "export"
             \/ \E i \in 1..MaxInFlight : loadReject(i) /\ ev'.error = "export"
             \/ \E i \in 1..MaxInFlight : loadResolve(i) /\ app'.fontLoaded]_vars

\* the export succeeded, the font load that followed failed: isExporting
\* is false again and the error is shown
W_FontLoadFailedAfterExport ==
  /\ app.view = "export" /\ ~ev.isExporting /\ ev.error = "export"
  /\ app.fontUrl = "url" /\ ~app.fontLoaded
  /\ app.localLastGeneration # NoTime
  /\ net.exports = << >> /\ net.loads = << >>

\* C25: mounting the export view with fontLoaded = true loads nothing and
\* changes no font state; otherwise fontUrl is set by the mount only when
\* its font load resolves, and a failed load changes neither fontUrl nor
\* the error; and whenever no export and no font load is in progress, a
\* non-null fontUrl comes with fontLoaded = true.
FontShownOnlyWhenLoaded ==
  /\ []((net.exports = << >> /\ net.loads = << >>) =>
          (app.fontUrl # NULL => app.fontLoaded))
  /\ [][/\ (setView("export") /\ app.fontLoaded) =>
             /\ FontState(app') = FontState(app)
             /\ Len(net'.loads) = Len(net.loads)
        /\ (setView("export") /\ ~app.fontLoaded) =>
             /\ app'.fontUrl = app.fontUrl /\ ~app'.fontLoaded
             /\ Len(net'.loads) = Len(net.loads) + 1
        /\ \A i \in 1..MaxInFlight :
             (loadReject(i) /\ net.loads[i].kind = "mount") =>
               /\ app' = app
               /\ ev' = ev]_vars

\* C26: tryGetUserMedia tries the constraint sets in their order; when it
\* is done it has tried exactly the sets up to the first one the camera
\* answers with a stream and returned the stream of that set, or, when the
\* camera answers none with a stream, it has tried all three and thrown
\* the error of the third attempt.
FirstWorkingConstraints ==
  LET n == Len(constraintsList)
      working == {i \in 1..n : arg[i] = "stream"}
      first == CHOOSE i \in working : \A j \in working : i <= j
  IN /\ res.tried = SubSeq(constraintsList, 1, Len(res.tried))
     /\ ~res.done => (res.stream = NULL /\ res.thrown = NULL)
     /\ res.done =>
          IF working # {}
          THEN /\ res.tried = SubSeq(constraintsList, 1, first)
               /\ res.stream = constraintsList[first]
               /\ res.thrown = NULL
          ELSE /\ res.tried = constraintsList
               /\ res.stream = NULL
               /\ res.thrown = arg[n]

\* the first two constraint sets were refused for different reasons, the
\* third gave the stream
W_ThirdConstraintsWorked ==
  /\ res.done /\ res.stream = "video" /\ res.thrown = NULL
  /\ res.tried = constraintsList
  /\ res.lastError = "NotFoundError"
  /\ arg[1] = "OverconstrainedError"

\* C27: a response with status 429 makes the API function throw a
\* RateLimitError, for the session functions and for every session-scoped
\* function alike; the functions that use handleResponse throw, for every
\* other status that is not OK, an Error with the detail of the body, or
\* with their default message when the body has none.
RateLimitSurfaces ==
  res.done =>
    LET call == arg[1]
        status == arg[2]
        body == arg[3]
    IN /\ status = 429 => res.error.name = "RateLimitError"
       /\ (call \in ApiCalls.session /\ status \notin {200, 429}) =>
            /\ res.error.name = "Error"
            /\ res.error.message =
                 IF body = "detail" THEN "detail" ELSE errorMessage(call)
       /\ status = 200 => res.error.name = "ok"

\* C28: clearing is true exactly while the clear request is in flight, of
\* which there is at most one, and the dialog is open for that long;
\* handleClearAll and Cancel are not available while clearing is true;
\* both outcomes of clearSession end with clearing = false and the dialog
\* closed; a failed clearSession leaves the font state of the App, the
\* store and the gallery requests as they are; a successful one resets the
\* font state and refetches the gallery.
ClearAlwaysFinishes ==
  /\ [](/\ net.clears <= 1
        /\ app.clearing <=> net.clears = 1
        /\ app.clearing => app.showClearConfirm)
  /\ [][/\ clearReject =>
             /\ ~app'.clearing /\ ~app'.showClearConfirm
             /\ FontState(app') = FontState(app)
             /\ net'.fetches = net.fetches
             /\ app'.galleryData = app.galleryData
             /\ server' = server
        /\ \A keepEdit \in BOOLEAN :
             clearResolve(keepEdit) =>
               /\ ~app'.clearing /\ ~app'.showClearConfirm
               /\ app'.fontUrl = NULL /\ ~app'.fontLoaded
               /\ app'.fontFamilyId = NULL
               /\ app'.localLastGeneration = NoTime
               /\ Len(net'.fetches) >= 1
               /\ net'.fetches[Len(net'.fetches)].current
        /\ handleClearAll => (~app.clearing /\ net'.clears = 1)
        /\ (app.clearing /\ app'.clearing) =>
             (app'.showClearConfirm /\ net'.clears = 1)
        /\ (app.clearing /\ ~app'.clearing) =>
             (clearReject \/ \E keepEdit \in BOOLEAN : clearResolve(keepEdit))]_vars

\* the clear request is in flight while a font is loaded: the dialog is
\* open with both buttons disabled
W_ClearingWithFontLoaded ==
  /\ app.clearing /\ app.showClearConfirm /\ net.clears = 1
  /\ app.fontLoaded /\ app.fontUrl = "url"
  /\ app.localLastGeneration # NoTime
  /\ capturedCount(app) = 1

\* C29: handleRetake sets state = "webcam", processedImage = null,
\* capturedFrame = null, error = null and viewingExisting = false, sends
\* no request and leaves the store alone; closing the modal and a failed
\* preview leave the store alone too; an entry of the store is set only by
\* a save that succeeded and removed only by a delete that succeeded.
RetakeKeepsStoredCapture ==
  [][/\ handleRetake =>
          /\ modal'.state = "webcam"
          /\ modal'.processedImage = NULL
          /\ modal'.capturedFrame = NULL
          /\ modal'.error = NULL
          /\ ~modal'.viewingExisting
          /\ net' = net
          /\ server' = server
          /\ app' = app
     /\ handleCaptureClose => server' = server
     /\ \A i \in 1..MaxInFlight : previewReject(i) => server' = server
     /\ \A k \in StoreKeys :
          server'.store[k] # server.store[k] =>
            IF server'.store[k] # NULL
            THEN \E i \in 1..MaxInFlight :
                   /\ saveResolve(i)
                   /\ HexKey(net.saves[i].emoji) = k
                   /\ server'.store[k] = net.saves[i].image
            ELSE \E i \in 1..MaxInFlight :
                   /\ deleteResolve(i)
                   /\ HexKey(net.deletes[i].emoji) = k]_vars

\* the capture of E1 was opened and retaken; the new preview failed; the
\* store and the gallery still hold the first image
W_RetakenPreviewFailed ==
  /\ app.modalOpen /\ app.selectedEmoji = E1
  /\ modal.state = "webcam" /\ ~modal.viewingExisting
  /\ modal.error = "preview"
  /\ server.store[HexKey(E1)] = "img1"
  /\ ImageOf(app, E1) = "img1"
  /\ server.clock = 1
  /\ net.saves = << >> /\ net.deletes = << >> /\ net.previews = << >>

\* C30: the modal is in state "processing" exactly when a preview request
\* of it is in flight, and never more than one is; no trigger (Capture
\* button, Enter or Space, countdown expiry, upload) sends a preview
\* request while one is pending.
OnePreviewAtATime ==
  /\ [](app.modalOpen =>
          /\ Len(net.previews) <= 1
          /\ modal.state = "processing" <=> Len(net.previews) = 1)
  /\ [][Len(net'.previews) > Len(net.previews) => net.previews = << >>]_vars

\* C31: at most one export request of the session is in flight at any
\* time, also when the ExportView is left and entered again (a new
\* instance is mounted) while an export is still running.
OneExportAtATime == Len(net.exports) <= 1

=============================================================================
